---- MODULE Spec2Model ----
(***************************************************************************)
(* Policy engine and authorization core of the clean-architecture API:     *)
(* the statement matcher, the role-bucketed policy cache guarded by a      *)
(* read-write mutex, Evaluate, LoadPolicies, AddPolicy and RemovePolicy.   *)
(*                                                                         *)
(* Go strings that the code only compares are TLA+ strings.  Principals,   *)
(* which the code concatenates and slices, are sequences of one-character  *)
(* strings; Chars gives the characters of a role name and Text the name of *)
(* a character sequence.  A Go interface{} value is a record [t, v] of its *)
(* dynamic type and its payload: two interface values are equal only when  *)
(* both agree.                                                             *)
(***************************************************************************)
EXTENDS Integers, Sequences, FiniteSets, TLC

VARIABLES store, cache, mutex, pc, call, loc, ghost, probe, svc, boot, conv, http, db

vars == <<store, cache, mutex, pc, call, loc, ghost, probe, svc, boot, conv, http, db>>

-----------------------------------------------------------------------------
(* Strings the code slices: principals and roles.                          *)

RolePrefix == <<"r", "o", "l", "e", ":">>

WildcardKey == <<"*">>

RoleUser == "user"

RoleAdmin == "admin"

\* The role names of the model, with the characters of each.  "" and "*" are
\* role strings too: nothing in the engine restricts a role to user or admin.
RoleNames == {RoleUser, RoleAdmin, "", "*"}

Chars(role) ==
    CASE role = RoleUser -> <<"u", "s", "e", "r">>
      [] role = RoleAdmin -> <<"a", "d", "m", "i", "n">>
      [] role = "*" -> <<"*">>
      [] role = "" -> <<>>

Text(chars) == CHOOSE role \in RoleNames : Chars(role) = chars

RolePrincipal(role) == RolePrefix \o Chars(role)

PolicyEffectAllow == "allow"

PolicyEffectDeny == "deny"

ResourceOwnerKey == "resource_owner"

ResourceOwnerIDKey == "resource_owner_id"

-----------------------------------------------------------------------------
(* interface{} values and map[string]interface{}.                          *)

StrVal(s) == [t |-> "string", v |-> s]

BoolVal(s) == [t |-> "bool", v |-> s]

UUIDVal(u) == [t |-> "uuid", v |-> u]

\* uuid.UUID.String(): the textual form, a Go string
UUIDString(u) == [t |-> "string", v |-> u]

EmptyMap == [k \in {} |-> StrVal("")]

-----------------------------------------------------------------------------
(* Entities.                                                               *)

Statement(effect, principal, action, resource, conditions) ==
    [effect |-> effect, principal |-> principal, action |-> action,
     resource |-> resource, conditions |-> conditions]

PolicyDocument(id, name, statements, isActive) ==
    [id |-> id, name |-> name, statements |-> statements, isActive |-> isActive]

PermissionRequest(userId, role, resource, action, resourceId, context) ==
    [isNil |-> FALSE, userId |-> userId, role |-> role, resource |-> resource,
     action |-> action, resourceId |-> resourceId, context |-> context]

NilRequest ==
    [isNil |-> TRUE, userId |-> "", role |-> "", resource |-> "",
     action |-> "", resourceId |-> "", context |-> EmptyMap]

PermissionResponse(allowed, reason, policies) ==
    [allowed |-> allowed, reason |-> reason, policies |-> policies]

-----------------------------------------------------------------------------
(* The statement matcher.                                                  *)

matchesPrincipal(principal, role) ==
    principal = WildcardKey \/ principal = RolePrefix \o Chars(role)

matchesAction(policyAction, requestAction) ==
    policyAction = "*" \/ policyAction = requestAction

matchesResource_AnyResource(policyResource, requestResource) == TRUE

matchesResource(policyResource, requestResource) ==
    policyResource = "*" \/ policyResource = requestResource

checkResourceOwnership_AlwaysChecks(req) ==
    IF ResourceOwnerIDKey \notin DOMAIN req.context THEN FALSE
    ELSE req.context[ResourceOwnerIDKey] = UUIDString(req.userId)

checkResourceOwnership_AnyOwner(req) ==
    IF req.resourceId = "" THEN TRUE
    ELSE ResourceOwnerIDKey \in DOMAIN req.context

checkResourceOwnership(req) ==
    IF req.resourceId = "" THEN TRUE
    ELSE IF ResourceOwnerIDKey \notin DOMAIN req.context THEN FALSE
    ELSE req.context[ResourceOwnerIDKey] = UUIDString(req.userId)

RECURSIVE conditionsLoop(_, _, _)
conditionsLoop(keys, conditions, req) ==
    IF keys = {} THEN TRUE
    ELSE LET key == CHOOSE k \in keys : TRUE
         IN  IF key = ResourceOwnerKey
             THEN IF ~checkResourceOwnership(req) THEN FALSE
                  ELSE conditionsLoop(keys \ {key}, conditions, req)
             ELSE IF key \notin DOMAIN req.context
                     \/ req.context[key] # conditions[key]
                  THEN FALSE
                  ELSE conditionsLoop(keys \ {key}, conditions, req)

matchesConditions_IgnoresMissingKey(conditions, req) ==
    \A key \in DOMAIN conditions :
        IF key = ResourceOwnerKey THEN checkResourceOwnership(req)
        ELSE key \notin DOMAIN req.context \/ req.context[key] = conditions[key]

matchesConditions(conditions, req) ==
    IF Cardinality(DOMAIN conditions) = 0 THEN TRUE
    ELSE conditionsLoop(DOMAIN conditions, conditions, req)

statementMatches(statement, req) ==
    /\ matchesPrincipal(statement.principal, req.role)
    /\ matchesAction(statement.action, req.action)
    /\ matchesResource(statement.resource, req.resource)
    /\ matchesConditions(statement.conditions, req)

-----------------------------------------------------------------------------
(* The policy cache: a map from bucket key to the documents appended to    *)
(* that bucket, one append per statement that names the key.               *)

EmptyCache == [k \in {} |-> <<>>]

extractRoleFromPrincipal(principal) ==
    IF principal = WildcardKey THEN "*"
    ELSE IF Len(principal) > 5 /\ SubSeq(principal, 1, 5) = RolePrefix
         THEN Text(SubSeq(principal, 6, Len(principal)))
         ELSE ""

\* pe.cache[role] = append(pe.cache[role], policy)
bucketAppend(c, role, policy) ==
    IF role \in DOMAIN c THEN [c EXCEPT ![role] = Append(@, policy)]
    ELSE c @@ (role :> <<policy>>)

\* one turn of the inner loop of LoadPolicies: statement j of policy
loadStatement(c, policy, j) ==
    LET role == extractRoleFromPrincipal(policy.statements[j].principal)
    IN  IF role # "" THEN bucketAppend(c, role, policy) ELSE c

RECURSIVE loadStatementsFrom(_, _, _)
loadStatementsFrom(c, policy, j) ==
    IF j > Len(policy.statements) THEN c
    ELSE loadStatementsFrom(loadStatement(c, policy, j), policy, j + 1)

RECURSIVE loadPoliciesFrom(_, _, _)
loadPoliciesFrom(c, policies, i) ==
    IF i > Len(policies) THEN c
    ELSE loadPoliciesFrom(loadStatementsFrom(c, policies[i], 1), policies, i + 1)

\* the cache LoadPolicies builds from the documents GetActive returned
rebuildCache(policies) == loadPoliciesFrom(EmptyCache, policies, 1)

RECURSIVE dedupFrom(_, _, _, _)
dedupFrom(policies, i, seen, result) ==
    IF i > Len(policies) THEN result
    ELSE IF policies[i].id \in seen
         THEN dedupFrom(policies, i + 1, seen, result)
         ELSE dedupFrom(policies, i + 1, seen \cup {policies[i].id},
                        Append(result, policies[i]))

deduplicatePolicies_KeepsAll(policies) == policies

deduplicatePolicies(policies) == dedupFrom(policies, 1, {}, <<>>)

bucketOf(c, key) == IF key \in DOMAIN c THEN c[key] ELSE <<>>

getPoliciesFromCache(c, role) ==
    deduplicatePolicies(bucketOf(c, role) \o bucketOf(c, "*"))

-----------------------------------------------------------------------------
(* Evaluation.                                                             *)

\* the names appended to allowPolicies (effect allow) or denyPolicies (effect
\* deny) by the statements of one document, from statement j on
RECURSIVE statementNames(_, _, _, _)
statementNames(policy, j, req, effect) ==
    IF j > Len(policy.statements) THEN <<>>
    ELSE (IF statementMatches(policy.statements[j], req)
             /\ policy.statements[j].effect = effect
          THEN <<policy.name>> ELSE <<>>)
         \o statementNames(policy, j + 1, req, effect)

RECURSIVE policyNames(_, _, _, _)
policyNames(policies, i, req, effect) ==
    IF i > Len(policies) THEN <<>>
    ELSE statementNames(policies[i], 1, req, effect)
         \o policyNames(policies, i + 1, req, effect)

evaluatePolicies_AllowFirst(policies, req) ==
    LET allowPolicies == policyNames(policies, 1, req, PolicyEffectAllow)
        denyPolicies == policyNames(policies, 1, req, PolicyEffectDeny)
    IN  IF Len(allowPolicies) > 0
        THEN PermissionResponse(TRUE, "allowed by policy", allowPolicies)
        ELSE IF Len(denyPolicies) > 0
             THEN PermissionResponse(FALSE, "denied by policy", denyPolicies)
             ELSE PermissionResponse(FALSE, "no matching policy found", <<>>)

evaluatePolicies_DefaultAllow(policies, req) ==
    LET allowPolicies == policyNames(policies, 1, req, PolicyEffectAllow)
        denyPolicies == policyNames(policies, 1, req, PolicyEffectDeny)
    IN  IF Len(denyPolicies) > 0
        THEN PermissionResponse(FALSE, "denied by policy", denyPolicies)
        ELSE PermissionResponse(TRUE, "allowed by policy", allowPolicies)

evaluatePolicies(policies, req) ==
    LET allowPolicies == policyNames(policies, 1, req, PolicyEffectAllow)
        denyPolicies == policyNames(policies, 1, req, PolicyEffectDeny)
    IN  IF Len(denyPolicies) > 0
        THEN PermissionResponse(FALSE, "denied by policy", denyPolicies)
        ELSE IF Len(allowPolicies) > 0
             THEN PermissionResponse(TRUE, "allowed by policy", allowPolicies)
             ELSE PermissionResponse(FALSE, "no matching policy found", <<>>)

\* what Evaluate returns once the lookup has returned policies
decide_NoEmptyCase(policies, req) ==
    [response |-> evaluatePolicies(policies, req), err |-> "nil"]

decide(policies, req) ==
    IF Len(policies) = 0
    THEN [response |-> PermissionResponse(FALSE, "no policies found for role", <<>>),
          err |-> "nil"]
    ELSE [response |-> evaluatePolicies(policies, req), err |-> "nil"]

InvalidRequestResult ==
    [response |-> PermissionResponse(FALSE, "invalid request", <<>>),
     err |-> "ErrInvalidRequest"]

-----------------------------------------------------------------------------
(* The authorization service: the request it builds from the context       *)
(* carrier.  A carrier is a map from context key to interface{} value.     *)

ContextUserID == "user_id"

ContextUserRole == "user_role"

ContextUserEmail == "user_email"

ContextClientIP == "client_ip"

\* ctx.Value(key).(T): present and of dynamic type T
hasTyped(ctx, key, type) == key \in DOMAIN ctx /\ ctx[key].t = type

validateUserRole(ctx) ==
    IF ~hasTyped(ctx, ContextUserRole, "string") \/ ctx[ContextUserRole].v = ""
    THEN [role |-> "", err |-> "ErrUserRoleNotFound"]
    ELSE [role |-> ctx[ContextUserRole].v, err |-> "nil"]

buildContextData(ctx, resourceID) ==
    LET d1 == IF hasTyped(ctx, ContextUserID, "uuid")
              THEN ContextUserID :> UUIDString(ctx[ContextUserID].v) ELSE EmptyMap
        d2 == IF hasTyped(ctx, ContextUserRole, "string")
              THEN ContextUserRole :> ctx[ContextUserRole] ELSE EmptyMap
        d3 == IF hasTyped(ctx, ContextUserEmail, "string")
              THEN ContextUserEmail :> ctx[ContextUserEmail] ELSE EmptyMap
        d4 == IF hasTyped(ctx, ContextClientIP, "string")
              THEN ContextClientIP :> ctx[ContextClientIP] ELSE EmptyMap
        d5 == IF resourceID # "" THEN "resource_id" :> StrVal(resourceID) ELSE EmptyMap
    IN  d1 @@ d2 @@ d3 @@ d4 @@ d5

\* the request CheckResourcePermission hands to Evaluate
checkResourcePermissionRequest(ctx, userID, resource, action, resourceID) ==
    PermissionRequest(userID, validateUserRole(ctx).role, resource, action,
                      resourceID, buildContextData(ctx, resourceID))

\* CheckPermission is CheckResourcePermission with resourceID ""
checkPermissionRequest(ctx, userID, resource, action) ==
    checkResourcePermissionRequest(ctx, userID, resource, action, "")

-----------------------------------------------------------------------------
(* The policy store behind the PolicyRepository interface: the rows of    *)
(* policy_documents with their statements, in insertion order.            *)

RECURSIVE selectActive(_, _)
selectActive(rows, i) ==
    IF i > Len(rows) THEN <<>>
    ELSE (IF rows[i].isActive THEN <<rows[i]>> ELSE <<>>) \o selectActive(rows, i + 1)

\* GetActive: the documents with is_active = true
GetActive(rows) == selectActive(rows, 1)

\* Create succeeds only when neither the primary key nor the unique name is taken
canCreate(rows, policy) ==
    \A i \in 1..Len(rows) : rows[i].id # policy.id /\ rows[i].name # policy.name

Create(rows, policy) == Append(rows, policy)

RECURSIVE deleteFrom(_, _, _)
deleteFrom(rows, id, i) ==
    IF i > Len(rows) THEN <<>>
    ELSE (IF rows[i].id = id THEN <<>> ELSE <<rows[i]>>) \o deleteFrom(rows, id, i + 1)

\* Delete: the document with that id and its statements; no row is no error
Delete(rows, id) == deleteFrom(rows, id, 1)

IsValid(statement) ==
    statement.effect = PolicyEffectAllow \/ statement.effect = PolicyEffectDeny

validatePolicy_NameOnly(policy) ==
    IF policy.name = "" THEN "ErrInvalidRequest" ELSE "nil"

validatePolicy(policy) ==
    IF policy.name = "" THEN "ErrInvalidRequest"
    ELSE IF \E j \in 1..Len(policy.statements) : ~IsValid(policy.statements[j])
         THEN "ErrInvalidRequest"
         ELSE "nil"

-----------------------------------------------------------------------------
(* Processes: the goroutines that call into the engine.  Each runs one     *)
(* call at a time; pc is its place in the call.                            *)

Procs == {"p1", "p2"}

NoPolicy == PolicyDocument("", "", <<>>, FALSE)

IdleCall == [op |-> "none", req |-> NilRequest, policy |-> NoPolicy, policyID |-> ""]

NoResult == [response |-> PermissionResponse(FALSE, "", <<>>), err |-> "nil"]

\* policies: the documents fetched (LoadPolicies) or looked up (Evaluate);
\* found: allPolicies of getPoliciesFromCache; i, j: the loops of LoadPolicies;
\* seen, looked, fetchFailed: history, what the call met (the complete cache
\* when it took the read lock, that it read the cache, that its fetch failed)
IdleLoc ==
    [policies |-> <<>>, found |-> <<>>, i |-> 1, j |-> 1, result |-> NoResult,
     seen |-> EmptyCache, looked |-> FALSE, fetchFailed |-> FALSE]

Mutators == {"LoadPolicies", "AddPolicy", "RemovePolicy"}

\* History kept for the properties: complete is the cache as the last
\* finished LoadPolicies (or the constructor) left it; calls counts the calls
\* started; for the call of p in progress, overlap[p] says that another
\* mutating call ran during it, before[p] is the cache when it started and
\* wrote[p] says that it has written the cache, persisted[p] that it has
\* changed the rows of the store.
GhostInit(c) ==
    [complete |-> c, calls |-> 0,
     overlap |-> [p \in Procs |-> FALSE],
     before |-> [p \in Procs |-> EmptyCache],
     wrote |-> [p \in Procs |-> FALSE],
     persisted |-> [p \in Procs |-> FALSE]]

\* sync.RWMutex: Lock waits for the writer and all readers to leave
canLock(m) == m.writer = "none" /\ m.readers = {}

canRLock_IgnoresWriter(m) == TRUE

\* RLock waits for the writer to leave
canRLock(m) == m.writer = "none"

begin(p, op, counted) ==
    [ghost EXCEPT
        !.calls = IF counted THEN @ + 1 ELSE @,
        !.overlap = [q \in Procs |->
                        IF op \notin Mutators THEN @[q]
                        ELSE IF q = p THEN \E r \in Procs \ {p} : call[r].op \in Mutators
                        ELSE @[q] \/ call[q].op \in Mutators],
        !.before[p] = IF op \in Mutators THEN cache ELSE EmptyCache,
        !.wrote[p] = FALSE,
        !.persisted[p] = FALSE]

-----------------------------------------------------------------------------
(* Evaluate.                                                               *)

StartEvaluate_NoNilCheck(p, req, counted) ==
    /\ pc[p] = "idle"
    /\ call' = [call EXCEPT ![p] = [IdleCall EXCEPT !.op = "Evaluate", !.req = req]]
    /\ ghost' = begin(p, "Evaluate", counted)
    /\ pc' = [pc EXCEPT ![p] = "lookup_rlock"]
    /\ loc' = loc
    /\ UNCHANGED <<store, cache, mutex, probe, svc, boot, conv, http, db>>

StartEvaluate(p, req, counted) ==
    /\ pc[p] = "idle"
    /\ call' = [call EXCEPT ![p] = [IdleCall EXCEPT !.op = "Evaluate", !.req = req]]
    /\ ghost' = begin(p, "Evaluate", counted)
    /\ IF req.isNil
       THEN /\ pc' = [pc EXCEPT ![p] = "done"]
            /\ loc' = [loc EXCEPT ![p].result = InvalidRequestResult]
       ELSE /\ pc' = [pc EXCEPT ![p] = "lookup_rlock"]
            /\ loc' = loc
    /\ UNCHANGED <<store, cache, mutex, probe, svc, boot, conv, http, db>>

\* getPoliciesFromCache: pe.mutex.RLock()
LookupRLock(p) ==
    /\ pc[p] = "lookup_rlock"
    /\ canRLock(mutex)
    /\ mutex' = [mutex EXCEPT !.readers = @ \cup {p}]
    /\ loc' = [loc EXCEPT ![p].seen = ghost.complete, ![p].looked = TRUE]
    /\ pc' = [pc EXCEPT ![p] = "lookup_role"]
    /\ UNCHANGED <<store, cache, call, ghost, probe, svc, boot, conv, http, db>>

\* allPolicies = append(allPolicies, pe.cache[role]...)
LookupRole(p) ==
    /\ pc[p] = "lookup_role"
    /\ loc' = [loc EXCEPT ![p].found = bucketOf(cache, call[p].req.role)]
    /\ pc' = [pc EXCEPT ![p] = "lookup_global"]
    /\ UNCHANGED <<store, cache, mutex, call, ghost, probe, svc, boot, conv, http, db>>

\* allPolicies = append(allPolicies, pe.cache["*"]...)
LookupGlobal(p) ==
    /\ pc[p] = "lookup_global"
    /\ loc' = [loc EXCEPT ![p].found = @ \o bucketOf(cache, "*")]
    /\ pc' = [pc EXCEPT ![p] = "lookup_return"]
    /\ UNCHANGED <<store, cache, mutex, call, ghost, probe, svc, boot, conv, http, db>>

\* return pe.deduplicatePolicies(allPolicies), then the deferred RUnlock
LookupReturn(p) ==
    /\ pc[p] = "lookup_return"
    /\ loc' = [loc EXCEPT ![p].policies = deduplicatePolicies(loc[p].found)]
    /\ mutex' = [mutex EXCEPT !.readers = @ \ {p}]
    /\ pc' = [pc EXCEPT ![p] = "decide"]
    /\ UNCHANGED <<store, cache, call, ghost, probe, svc, boot, conv, http, db>>

EvaluateDecide(p) ==
    /\ pc[p] = "decide"
    /\ loc' = [loc EXCEPT ![p].result = decide(loc[p].policies, call[p].req)]
    /\ pc' = [pc EXCEPT ![p] = "done"]
    /\ UNCHANGED <<store, cache, mutex, call, ghost, probe, svc, boot, conv, http, db>>

-----------------------------------------------------------------------------
(* LoadPolicies, called directly or as the tail of AddPolicy/RemovePolicy. *)

StartLoadPolicies(p, counted) ==
    /\ pc[p] = "idle"
    /\ call' = [call EXCEPT ![p] = [IdleCall EXCEPT !.op = "LoadPolicies"]]
    /\ ghost' = begin(p, "LoadPolicies", counted)
    /\ pc' = [pc EXCEPT ![p] = "load_fetch"]
    /\ UNCHANGED <<store, cache, mutex, loc, probe, svc, boot, conv, http, db>>

LoadFetchFails_ResetsCache(p) ==
    /\ pc[p] = "load_fetch"
    /\ loc' = [loc EXCEPT ![p].result = [NoResult EXCEPT !.err = "ErrStore"],
                          ![p].fetchFailed = TRUE]
    /\ cache' = EmptyCache
    /\ pc' = [pc EXCEPT ![p] = "done"]
    /\ UNCHANGED <<store, mutex, call, ghost, probe, svc, boot, conv, http, db>>

\* policyRepo.GetActive fails: return err
LoadFetchFails(p) ==
    /\ pc[p] = "load_fetch"
    /\ loc' = [loc EXCEPT ![p].result = [NoResult EXCEPT !.err = "ErrStore"],
                          ![p].fetchFailed = TRUE]
    /\ pc' = [pc EXCEPT ![p] = "done"]
    /\ UNCHANGED <<store, cache, mutex, call, ghost, probe, svc, boot, conv, http, db>>

LoadFetch(p) ==
    /\ pc[p] = "load_fetch"
    /\ loc' = [loc EXCEPT ![p].policies = GetActive(store)]
    /\ pc' = [pc EXCEPT ![p] = "load_lock"]
    /\ UNCHANGED <<store, cache, mutex, call, ghost, probe, svc, boot, conv, http, db>>

LoadLock(p) ==
    /\ pc[p] = "load_lock"
    /\ canLock(mutex)
    /\ mutex' = [mutex EXCEPT !.writer = p]
    /\ pc' = [pc EXCEPT ![p] = "load_reset"]
    /\ UNCHANGED <<store, cache, call, loc, ghost, probe, svc, boot, conv, http, db>>

\* the place of the next statement at or after statement j of document i
RECURSIVE nextStatement(_, _, _)
nextStatement(policies, i, j) ==
    IF i > Len(policies) THEN [i |-> i, j |-> 1]
    ELSE IF j > Len(policies[i].statements) THEN nextStatement(policies, i + 1, 1)
    ELSE [i |-> i, j |-> j]

\* pe.cache = make(map[string][]*entities.PolicyDocument)
LoadReset(p) ==
    /\ pc[p] = "load_reset"
    /\ cache' = EmptyCache
    /\ ghost' = [ghost EXCEPT !.wrote[p] = TRUE]
    /\ LET at == nextStatement(loc[p].policies, 1, 1)
       IN  loc' = [loc EXCEPT ![p].i = at.i, ![p].j = at.j]
    /\ pc' = [pc EXCEPT ![p] = "load_fill"]
    /\ UNCHANGED <<store, mutex, call, probe, svc, boot, conv, http, db>>

\* one turn of the inner loop
LoadFill(p) ==
    /\ pc[p] = "load_fill"
    /\ loc[p].i <= Len(loc[p].policies)
    /\ cache' = loadStatement(cache, loc[p].policies[loc[p].i], loc[p].j)
    /\ LET at == nextStatement(loc[p].policies, loc[p].i, loc[p].j + 1)
       IN  loc' = [loc EXCEPT ![p].i = at.i, ![p].j = at.j]
    /\ UNCHANGED <<store, mutex, pc, call, ghost, probe, svc, boot, conv, http, db>>

\* the loops are over: return nil, then the deferred Unlock
LoadReturn(p) ==
    /\ pc[p] = "load_fill"
    /\ loc[p].i > Len(loc[p].policies)
    /\ mutex' = [mutex EXCEPT !.writer = "none"]
    /\ ghost' = [ghost EXCEPT !.complete = cache]
    /\ loc' = [loc EXCEPT ![p].result = [NoResult EXCEPT !.err = "nil"]]
    /\ pc' = [pc EXCEPT ![p] = "done"]
    /\ UNCHANGED <<store, cache, call, probe, svc, boot, conv, http, db>>

-----------------------------------------------------------------------------
(* AddPolicy and RemovePolicy.                                             *)

StartAddPolicy(p, policy, counted) ==
    /\ pc[p] = "idle"
    /\ call' = [call EXCEPT ![p] = [IdleCall EXCEPT !.op = "AddPolicy", !.policy = policy]]
    /\ ghost' = begin(p, "AddPolicy", counted)
    /\ IF validatePolicy(policy) # "nil"
       THEN /\ pc' = [pc EXCEPT ![p] = "done"]
            /\ loc' = [loc EXCEPT ![p].result = [NoResult EXCEPT !.err = validatePolicy(policy)]]
       ELSE /\ pc' = [pc EXCEPT ![p] = "add_create"]
            /\ loc' = loc
    /\ UNCHANGED <<store, cache, mutex, probe, svc, boot, conv, http, db>>

AddCreateFails(p) ==
    /\ pc[p] = "add_create"
    /\ loc' = [loc EXCEPT ![p].result = [NoResult EXCEPT !.err = "ErrStore"]]
    /\ pc' = [pc EXCEPT ![p] = "done"]
    /\ UNCHANGED <<store, cache, mutex, call, ghost, probe, svc, boot, conv, http, db>>

AddCreate_NoReload(p) ==
    /\ pc[p] = "add_create"
    /\ canCreate(store, call[p].policy)
    /\ store' = Create(store, call[p].policy)
    /\ ghost' = [ghost EXCEPT !.persisted[p] = TRUE]
    /\ loc' = [loc EXCEPT ![p].result = [NoResult EXCEPT !.err = "nil"]]
    /\ pc' = [pc EXCEPT ![p] = "done"]
    /\ UNCHANGED <<cache, mutex, call, probe, svc, boot, conv, http, db>>

AddCreate(p) ==
    /\ pc[p] = "add_create"
    /\ canCreate(store, call[p].policy)
    /\ store' = Create(store, call[p].policy)
    /\ ghost' = [ghost EXCEPT !.persisted[p] = TRUE]
    /\ pc' = [pc EXCEPT ![p] = "load_fetch"]
    /\ UNCHANGED <<cache, mutex, call, loc, probe, svc, boot, conv, http, db>>

StartRemovePolicy(p, policyID, counted) ==
    /\ pc[p] = "idle"
    /\ call' = [call EXCEPT ![p] = [IdleCall EXCEPT !.op = "RemovePolicy", !.policyID = policyID]]
    /\ ghost' = begin(p, "RemovePolicy", counted)
    /\ pc' = [pc EXCEPT ![p] = "remove_delete"]
    /\ UNCHANGED <<store, cache, mutex, loc, probe, svc, boot, conv, http, db>>

RemoveDeleteFails(p) ==
    /\ pc[p] = "remove_delete"
    /\ loc' = [loc EXCEPT ![p].result = [NoResult EXCEPT !.err = "ErrStore"]]
    /\ pc' = [pc EXCEPT ![p] = "done"]
    /\ UNCHANGED <<store, cache, mutex, call, ghost, probe, svc, boot, conv, http, db>>

RemoveDelete(p) ==
    /\ pc[p] = "remove_delete"
    /\ store' = Delete(store, call[p].policyID)
    /\ ghost' = [ghost EXCEPT !.persisted[p] = (store' # store)]
    /\ pc' = [pc EXCEPT ![p] = "load_fetch"]
    /\ UNCHANGED <<cache, mutex, call, loc, probe, svc, boot, conv, http, db>>

\* the call returns to its caller
Return(p) ==
    /\ pc[p] = "done"
    /\ pc' = [pc EXCEPT ![p] = "idle"]
    /\ call' = [call EXCEPT ![p] = IdleCall]
    /\ loc' = [loc EXCEPT ![p] = IdleLoc]
    /\ ghost' = [ghost EXCEPT !.overlap[p] = FALSE, !.before[p] = EmptyCache,
                              !.wrote[p] = FALSE, !.persisted[p] = FALSE]
    /\ UNCHANGED <<store, cache, mutex, probe, svc, boot, conv, http, db>>

IdleProbe ==
    [phase |-> "idle", api |-> "Evaluate", ctx |-> EmptyMap, args |-> NilRequest,
     statement |-> Statement("", <<>>, "", "", EmptyMap), req |-> NilRequest,
     out |-> FALSE]

\* an error value: nil, an *AppError (category, code), a *PermissionError
\* (userRole, resource, action, reason) or an error of the database driver
ErrorValue(type, category, code, userRole, resource, action, reason) ==
    [type |-> type, category |-> category, code |-> code, userRole |-> userRole,
     resource |-> resource, action |-> action, reason |-> reason]

NilError == ErrorValue("nil", "", "", "", "", "", "")

IdleSvc ==
    [phase |-> "idle", api |-> "none", ctx |-> EmptyMap, userID |-> "",
     resource |-> "", action |-> "", resourceID |-> "", engineFails |-> FALSE,
     storeFails |-> FALSE, evaluations |-> 0, err |-> NilError,
     permissions |-> <<>>, status |-> 0, body |-> <<>>]

IdleBoot == [phase |-> "off", before |-> <<>>, err |-> "nil"]

\* a map[string]interface{} with its nil-ness, which encoding/json tells apart
ConditionsValue(isNil, entries) == [isNil |-> isNil, entries |-> entries]

IdleConv ==
    [phase |-> "idle", policy |-> PolicyDocument("", "", <<>>, FALSE),
     stored |-> PolicyDocument("", "", <<>>, FALSE),
     back |-> PolicyDocument("", "", <<>>, FALSE)]

\* the tables of the database, by the resource name of their repository,
\* and the entries of the audit logger
EmptyDB == [user |-> <<>>, product |-> <<>>, audit |-> <<>>]

\* no Authorization header
NoToken == [kind |-> "none", userID |-> "", email |-> "", role |-> ""]

\* a request in flight: the route, its token and path parameter, and what
\* gin.Context holds when the chain has run
IdleHTTP ==
    [phase |-> "idle", route |-> "", token |-> NoToken, id |-> "", input |-> <<>>,
     dbFails |-> FALSE, status |-> 0, aborted |-> FALSE, keys |-> EmptyMap,
     ctx |-> EmptyMap, trace |-> <<>>, ran |-> <<>>, checks |-> <<>>, passed |-> 0,
     err |-> NilError, body |-> <<>>, before |-> EmptyDB]

-----------------------------------------------------------------------------
(* Policy documents.                                                       *)

OwnerCondition == ResourceOwnerKey :> BoolVal("true")

DepartmentCondition == "department" :> StrVal("sales")

\* createAdminPolicy
AdminPolicy ==
    PolicyDocument("id-admin", "admin-full-access",
        <<Statement(PolicyEffectAllow, RolePrincipal(RoleAdmin), "*", "*", EmptyMap)>>,
        TRUE)

\* createUserPolicy: one allow statement per product permission
UserPolicy ==
    PolicyDocument("id-user", "user-product-access",
        <<Statement(PolicyEffectAllow, RolePrincipal(RoleUser), "create", "product:create", EmptyMap),
          Statement(PolicyEffectAllow, RolePrincipal(RoleUser), "read", "product:read", EmptyMap),
          Statement(PolicyEffectAllow, RolePrincipal(RoleUser), "update", "product:update", EmptyMap),
          Statement(PolicyEffectAllow, RolePrincipal(RoleUser), "delete", "product:delete", EmptyMap),
          Statement(PolicyEffectAllow, RolePrincipal(RoleUser), "list", "product:list", EmptyMap)>>,
        TRUE)

BootstrapStore == <<AdminPolicy, UserPolicy>>

DenyDeletePolicy ==
    PolicyDocument("id-deny", "deny-user-delete",
        <<Statement(PolicyEffectDeny, RolePrincipal(RoleUser), "delete", "product:delete", EmptyMap)>>,
        TRUE)

NamelessPolicy ==
    PolicyDocument("id-nameless", "",
        <<Statement(PolicyEffectAllow, WildcardKey, "*", "*", EmptyMap)>>, TRUE)

\* a named document whose second statement has an effect that is neither
\* allow nor deny
InvalidEffectPolicy ==
    PolicyDocument("id-maybe", "maybe-user-read",
        <<Statement(PolicyEffectAllow, RolePrincipal(RoleUser), "read", "product:read", EmptyMap),
          Statement("maybe", RolePrincipal(RoleUser), "read", "product:read", EmptyMap)>>,
        TRUE)

UserDeleteRequest ==
    PermissionRequest("u1", RoleUser, "product:delete", "delete", "", EmptyMap)

-----------------------------------------------------------------------------
(* Spec: the engine under concurrent callers.                              *)

MaxCalls == 2

SpecPolicies == {DenyDeletePolicy, NamelessPolicy, InvalidEffectPolicy}

SpecPolicyIDs == {UserPolicy.id, DenyDeletePolicy.id}

SpecRequests == {NilRequest, UserDeleteRequest}

\* NewPolicyEngine: the cache is empty when the first LoadPolicies fails
InitEngine(stores) ==
    /\ store \in stores
    /\ cache \in {rebuildCache(GetActive(store)), EmptyCache}
    /\ mutex = [writer |-> "none", readers |-> {}]
    /\ pc = [p \in Procs |-> "idle"]
    /\ call = [p \in Procs |-> IdleCall]
    /\ loc = [p \in Procs |-> IdleLoc]
    /\ ghost = GhostInit(cache)

Init ==
    /\ InitEngine({<<>>, BootstrapStore})
    /\ probe = IdleProbe
    /\ svc = IdleSvc
    /\ boot = IdleBoot
    /\ conv = IdleConv
    /\ http = IdleHTTP
    /\ db = EmptyDB

Step(p) ==
    \/ LookupRLock(p) \/ LookupRole(p) \/ LookupGlobal(p) \/ LookupReturn(p)
    \/ EvaluateDecide(p)
    \/ LoadFetchFails(p) \/ LoadFetch(p) \/ LoadLock(p) \/ LoadReset(p)
    \/ LoadFill(p) \/ LoadReturn(p)
    \/ AddCreateFails(p) \/ AddCreate(p)
    \/ RemoveDeleteFails(p) \/ RemoveDelete(p)
    \/ Return(p)

Next ==
    \E p \in Procs :
        \/ /\ ghost.calls < MaxCalls
           /\ \/ \E req \in SpecRequests : StartEvaluate(p, req, TRUE)
              \/ StartLoadPolicies(p, TRUE)
              \/ \E policy \in SpecPolicies : StartAddPolicy(p, policy, TRUE)
              \/ \E id \in SpecPolicyIDs : StartRemovePolicy(p, id, TRUE)
        \/ Step(p)

Spec == Init /\ [][Next]_vars

TypeOK ==
    /\ mutex.writer \in Procs \cup {"none"}
    /\ mutex.readers \subseteq Procs
    /\ mutex.writer # "none" => mutex.readers = {}

\* the calls of Evaluate with a request that have returned a result
Evaluated == {p \in Procs : pc[p] = "done" /\ call[p].op = "Evaluate" /\ ~call[p].req.isNil}

\* C3: a lookup that runs while the cache is reloaded returns what one
\* complete cache gives for the role, the cache as it stood when the lookup
\* took the read lock (before a reload or after it, never in between), and
\* the evaluation decides by those documents.
C3_ReloadIsAllOrNothing ==
    \A p \in Procs :
        (call[p].op = "Evaluate" /\ pc[p] \in {"decide", "done"} /\ ~call[p].req.isNil) =>
            /\ loc[p].policies = getPoliciesFromCache(loc[p].seen, call[p].req.role)
            /\ pc[p] = "done" =>
                loc[p].result = decide(getPoliciesFromCache(loc[p].seen, call[p].req.role),
                                       call[p].req)

\* an evaluation has decided by the cache as it was before a reload that has
\* since rebuilt it
C3_Witness ==
    \E p \in Evaluated, q \in Procs :
        /\ call[q].op \in Mutators
        /\ ghost.wrote[q]
        /\ pc[q] = "done"
        /\ loc[p].seen # cache
        /\ loc[p].policies # getPoliciesFromCache(cache, call[p].req.role)

\* C4: when the fetch of the active policies fails in LoadPolicies, called
\* directly or by AddPolicy or RemovePolicy, the call has not written the
\* cache (with no other mutation at the same time the cache is what it was
\* when the call began) and the caller gets the error of the store.
C4_FailedFetchKeepsCache ==
    \A p \in Procs :
        (pc[p] = "done" /\ loc[p].fetchFailed) =>
            /\ loc[p].result.err = "ErrStore"
            /\ ~ghost.wrote[p]
            /\ ~ghost.overlap[p] => cache = ghost.before[p]

\* the fetch failed inside AddPolicy, after the document was created, and the
\* cache still holds what it held
C4_Witness ==
    \E p \in Procs :
        /\ pc[p] = "done"
        /\ loc[p].fetchFailed
        /\ call[p].op = "AddPolicy"
        /\ cache # EmptyCache
        /\ cache = ghost.before[p]

\* C5: when AddPolicy or RemovePolicy returns nil and no other mutating call
\* (AddPolicy, RemovePolicy, LoadPolicies) ran during it, the cache is the
\* bucketing of the active documents of the store; with the bootstrap allow
\* for role user on product:delete/delete still stored, after the deny
\* document for that pair is added the evaluation of that pair for role user
\* is allowed=false.
C5_MutationReloadsCache ==
    \A p \in Procs :
        ( /\ pc[p] = "done"
          /\ call[p].op \in {"AddPolicy", "RemovePolicy"}
          /\ loc[p].result.err = "nil"
          /\ ~ghost.overlap[p] ) =>
            /\ cache = rebuildCache(GetActive(store))
            /\ ( /\ call[p].op = "AddPolicy"
                 /\ call[p].policy = DenyDeletePolicy
                 /\ \E i \in 1..Len(store) : store[i] = UserPolicy ) =>
                    decide(getPoliciesFromCache(cache, RoleUser), UserDeleteRequest)
                        .response.allowed = FALSE

\* the deny document was added next to the bootstrap documents, after an
\* evaluation that was still allowed
C5_Witness ==
    \E p \in Procs :
        /\ pc[p] = "done"
        /\ call[p].op = "AddPolicy"
        /\ call[p].policy = DenyDeletePolicy
        /\ loc[p].result.err = "nil"
        /\ ~ghost.overlap[p]
        /\ ghost.before[p] = rebuildCache(BootstrapStore)
        /\ decide(getPoliciesFromCache(ghost.before[p], RoleUser), UserDeleteRequest)
                .response.allowed = TRUE
        /\ decide(getPoliciesFromCache(cache, RoleUser), UserDeleteRequest)
                .response.reason = "denied by policy"

\* C24: for every interleaving of concurrent AddPolicy, RemovePolicy and
\* LoadPolicies calls, once all of them have returned without error the
\* cache is the role-bucketing of the active documents the store holds now.
C24_CacheConvergence ==
    (\A p \in Procs :
        /\ pc[p] = "done"
        /\ call[p].op \in Mutators
        /\ loc[p].result.err = "nil") =>
            cache = rebuildCache(GetActive(store))

\* C25: whenever AddPolicy or RemovePolicy returns an error, that call has
\* left the rows of the policy store as they were.
C25_FailedMutationNotPersisted ==
    \A p \in Procs :
        ( /\ pc[p] = "done"
          /\ call[p].op \in {"AddPolicy", "RemovePolicy"}
          /\ loc[p].result.err # "nil" ) =>
            ~ghost.persisted[p]

\* the document has an empty name or a statement whose effect is neither
\* "allow" nor "deny"
rejectable(policy) ==
    \/ policy.name = ""
    \/ \E j \in 1..Len(policy.statements) :
            policy.statements[j].effect \notin {"allow", "deny"}

\* C18: AddPolicy of a document with an empty name, or with a statement
\* whose effect is neither allow nor deny, returns the invalid-request error
\* in the step that starts it and changes neither the store nor the cache;
\* and a step taken by AddPolicy that changes the store adds a document all
\* of whose statements have the effect allow or deny.
C18_InvalidPolicyIsRejected ==
    [][\A p \in Procs :
        /\ ( /\ pc[p] = "idle"
             /\ call'[p].op = "AddPolicy"
             /\ rejectable(call'[p].policy) ) =>
                /\ pc'[p] = "done"
                /\ loc'[p].result.err = "ErrInvalidRequest"
                /\ store' = store
                /\ cache' = cache
        /\ ( /\ call[p].op = "AddPolicy"
             /\ pc[p] = "add_create"
             /\ pc'[p] # pc[p]
             /\ store' # store ) =>
                /\ store' = Append(store, call[p].policy)
                /\ \A j \in 1..Len(call[p].policy.statements) :
                        call[p].policy.statements[j].effect \in {"allow", "deny"}
    ]_vars

\* AddPolicy of the document with an invalid second statement has returned
\* the invalid-request error, the document is not stored, and another
\* AddPolicy has stored a valid document
C18_Witness ==
    \E p \in Procs :
        /\ pc[p] = "done"
        /\ call[p].op = "AddPolicy"
        /\ call[p].policy = InvalidEffectPolicy
        /\ loc[p].result.err = "ErrInvalidRequest"
        /\ \A i \in 1..Len(store) : store[i].id # InvalidEffectPolicy.id
        /\ \E i \in 1..Len(store) : store[i] = DenyDeletePolicy

-----------------------------------------------------------------------------
(* SpecEval: one caller evaluates requests against the cache built from a  *)
(* store that holds any few documents of a catalogue, in any order.        *)

AllowThenDenyPolicy ==
    PolicyDocument("id-allow-deny", "allow-then-deny",
        <<Statement(PolicyEffectAllow, WildcardKey, "delete", "product:delete", EmptyMap),
          Statement(PolicyEffectDeny, RolePrincipal(RoleUser), "delete", "product:delete", EmptyMap)>>,
        TRUE)

DenyThenAllowPolicy ==
    PolicyDocument("id-deny-allow", "deny-then-allow",
        <<Statement(PolicyEffectDeny, WildcardKey, "*", "*", DepartmentCondition),
          Statement(PolicyEffectAllow, RolePrincipal(RoleUser), "*", "*", EmptyMap)>>,
        TRUE)

OwnerPolicy ==
    PolicyDocument("id-owner", "owner-delete",
        <<Statement(PolicyEffectAllow, RolePrincipal(RoleUser), "delete", "product:delete",
                    OwnerCondition)>>,
        TRUE)

PublicPolicy ==
    PolicyDocument("id-public", "public-create",
        <<Statement(PolicyEffectAllow, WildcardKey, "create", "user:create", EmptyMap)>>,
        TRUE)

\* a principal for the role named "*"
StarRolePolicy ==
    PolicyDocument("id-star", "star-role",
        <<Statement(PolicyEffectAllow, RolePrincipal("*"), "read", "product:read", EmptyMap)>>,
        TRUE)

\* a principal for the empty role, next to one for admin
EmptyRolePolicy ==
    PolicyDocument("id-empty-role", "empty-role",
        <<Statement(PolicyEffectDeny, RolePrincipal(""), "*", "*", EmptyMap),
          Statement(PolicyEffectAllow, RolePrincipal(RoleAdmin), "read", "product:read", EmptyMap)>>,
        TRUE)

\* a principal that is neither "*" nor "role:<name>"
MalformedPolicy ==
    PolicyDocument("id-malformed", "malformed-principal",
        <<Statement(PolicyEffectAllow, Chars(RoleUser), "*", "*", EmptyMap)>>, TRUE)

InactivePolicy ==
    PolicyDocument("id-inactive", "inactive-deny-all",
        <<Statement(PolicyEffectDeny, WildcardKey, "*", "*", EmptyMap)>>, FALSE)

Catalogue ==
    {AdminPolicy, UserPolicy, DenyDeletePolicy, AllowThenDenyPolicy, DenyThenAllowPolicy,
     OwnerPolicy, PublicPolicy, StarRolePolicy, EmptyRolePolicy, MalformedPolicy,
     InactivePolicy}

EvalStoreLen == 2

RECURSIVE storesOfLen(_)
storesOfLen(n) ==
    IF n = 0 THEN {<<>>}
    ELSE {Append(rows, d) : rows \in storesOfLen(n - 1), d \in Catalogue}

\* the stores of at most EvalStoreLen documents, no document twice
EvalStores ==
    {rows \in UNION {storesOfLen(n) : n \in 0..EvalStoreLen} :
        \A i, k \in 1..Len(rows) : i # k => rows[i].id # rows[k].id}

EvalRequests ==
    {NilRequest}
    \cup {PermissionRequest("u1", role, ra[1], ra[2], rc[1], rc[2]) :
            role \in RoleNames,
            ra \in {<<"product:delete", "delete">>, <<"user:create", "create">>,
                    <<"product:read", "read">>},
            rc \in {<<"", EmptyMap>>, <<"r1", EmptyMap>>,
                    <<"r1", ResourceOwnerIDKey :> UUIDString("u1")>>,
                    <<"r1", ResourceOwnerIDKey :> UUIDString("u2")>>,
                    <<"", "department" :> StrVal("sales")>>}}

Caller == "p1"

InitEval ==
    /\ InitEngine(EvalStores)
    /\ probe = IdleProbe
    /\ svc = IdleSvc
    /\ boot = IdleBoot
    /\ conv = IdleConv
    /\ http = IdleHTTP
    /\ db = EmptyDB

NextEval ==
    \/ \E req \in EvalRequests : StartEvaluate(Caller, req, FALSE)
    \/ LookupRLock(Caller) \/ LookupRole(Caller) \/ LookupGlobal(Caller)
    \/ LookupReturn(Caller) \/ EvaluateDecide(Caller)
    \/ StartLoadPolicies(Caller, FALSE)
    \/ LoadFetchFails(Caller) \/ LoadFetch(Caller) \/ LoadLock(Caller)
    \/ LoadReset(Caller) \/ LoadFill(Caller) \/ LoadReturn(Caller)
    \/ Return(Caller)

SpecEval == InitEval /\ [][NextEval]_vars

\* the places <<i, j>> of the statements with that effect, among the
\* documents the lookup returned to p, that match p's request
matching(p, effect) ==
    {at \in UNION {{<<i, j>> : j \in 1..Len(loc[p].policies[i].statements)} :
                    i \in 1..Len(loc[p].policies)} :
        /\ loc[p].policies[at[1]].statements[at[2]].effect = effect
        /\ statementMatches(loc[p].policies[at[1]].statements[at[2]], call[p].req)}

cached == UNION {{cache[k][n] : n \in 1..Len(cache[k])} : k \in DOMAIN cache}

isRolePrincipal(principal) ==
    Len(principal) >= 5 /\ SubSeq(principal, 1, 5) = <<"r", "o", "l", "e", ":">>

\* every statement of the document names a role, and none names role
onlyOtherRoles(policy, role) ==
    /\ Len(policy.statements) > 0
    /\ \A j \in 1..Len(policy.statements) :
        /\ isRolePrincipal(policy.statements[j].principal)
        /\ policy.statements[j].principal # <<"r", "o", "l", "e", ":">> \o Chars(role)

\* C6: once LoadPolicies has finished, the lookup for any role holds every
\* cached document that has a statement with principal "*", and no document
\* all of whose statements name roles other than that role.
C6_LookupKeepsRolesApart ==
    (\E p \in Procs : pc[p] = "done" /\ call[p].op = "LoadPolicies"
                        /\ ~loc[p].fetchFailed /\ ~ghost.overlap[p]) =>
        \A role \in RoleNames :
            LET lookup == getPoliciesFromCache(cache, role)
            IN  /\ \A d \in cached :
                    (\E j \in 1..Len(d.statements) : d.statements[j].principal = <<"*">>)
                        => \E k \in 1..Len(lookup) : lookup[k] = d
                /\ \A k \in 1..Len(lookup) : ~onlyOtherRoles(lookup[k], role)

C8_NoMatchReason ==
    \A p \in Evaluated :
        (\A effect \in {"allow", "deny"} : matching(p, effect) = {}) =>
            /\ loc[p].result.response.allowed = FALSE
            /\ loc[p].result.response.reason = "no matching policy found"

\* C8 amended: whenever no statement of any document looked up for the
\* request's role matches, the answer is allowed=false; the reason is
\* "no matching policy found" when the lookup returned a document and
\* "no policies found for role" when it returned none.
C8_NoMatchReasonAmended ==
    \A p \in Evaluated :
        (\A effect \in {"allow", "deny"} : matching(p, effect) = {}) =>
            /\ loc[p].result.response.allowed = FALSE
            /\ loc[p].result.response.reason =
                IF Len(loc[p].policies) > 0 THEN "no matching policy found"
                ELSE "no policies found for role"

\* documents apply to the role and none of their statements matches
C8_Witness ==
    \E p \in Evaluated :
        /\ Len(loc[p].policies) > 0
        /\ \A effect \in {"allow", "deny"} : matching(p, effect) = {}
        /\ loc[p].result.response.reason = "no matching policy found"

\* C9: when the bucket of the request's role and the wildcard bucket are
\* both empty, the answer is allowed=false, "no policies found for role",
\* whatever the resource, the action and the context.
C9_NoPoliciesForRole ==
    \A p \in Evaluated :
        (bucketOf(loc[p].seen, call[p].req.role) = <<>> /\ bucketOf(loc[p].seen, "*") = <<>>) =>
            /\ loc[p].result.response.allowed = FALSE
            /\ loc[p].result.response.reason = "no policies found for role"

\* the cache holds documents, none for the role of the request
C9_Witness ==
    \E p \in Evaluated :
        /\ cache # EmptyCache
        /\ bucketOf(cache, call[p].req.role) = <<>>
        /\ bucketOf(cache, "*") = <<>>
        /\ call[p].req.resourceId # ""
        /\ loc[p].result.response.reason = "no policies found for role"

\* the places <<i, j>> of the statements, among the documents the lookup
\* returned to p, whose principal, action and resource admit p's request
addressed(p) ==
    {at \in UNION {{<<i, j>> : j \in 1..Len(loc[p].policies[i].statements)} :
                    i \in 1..Len(loc[p].policies)} :
        LET st == loc[p].policies[at[1]].statements[at[2]]
        IN  /\ st.principal = <<"*">>
               \/ st.principal = <<"r", "o", "l", "e", ":">> \o Chars(call[p].req.role)
            /\ st.action \in {"*", call[p].req.action}
            /\ st.resource \in {"*", call[p].req.resource}}

\* C11: a request with a non-empty resourceId, whose context has no
\* resource_owner_id or one that is not the caller's userId as a string, is
\* answered allowed=false when every statement that admits it by principal,
\* action and resource carries a resource_owner condition.
C11_OwnershipMismatchDenies ==
    \A p \in Evaluated :
        LET req == call[p].req
            ownerOk == /\ "resource_owner_id" \in DOMAIN req.context
                       /\ req.context["resource_owner_id"] = [t |-> "string", v |-> req.userId]
        IN  ( /\ req.resourceId # ""
              /\ ~ownerOk
              /\ \A at \in addressed(p) :
                    "resource_owner" \in
                        DOMAIN loc[p].policies[at[1]].statements[at[2]].conditions ) =>
                loc[p].result.response.allowed = FALSE

\* an allow statement with the resource_owner condition admits the request,
\* the context names another user as owner, and the answer is a denial
C11_Witness ==
    \E p \in Evaluated :
        /\ call[p].req.resourceId # ""
        /\ "resource_owner_id" \in DOMAIN call[p].req.context
        /\ call[p].req.context["resource_owner_id"].v # call[p].req.userId
        /\ addressed(p) # {}
        /\ \A at \in addressed(p) :
                /\ loc[p].policies[at[1]].statements[at[2]].effect = "allow"
                /\ "resource_owner" \in
                        DOMAIN loc[p].policies[at[1]].statements[at[2]].conditions
        /\ loc[p].result.response.allowed = FALSE
        /\ loc[p].result.response.reason = "no matching policy found"

\* no two places of the sequence hold documents with the same id
distinctIDs(policies) ==
    \A i, k \in 1..Len(policies) : i # k => policies[i].id # policies[k].id

\* C23: in every reachable cache state the lookup result for any role holds
\* each policy document, by id, at most once, also when the document has
\* several statements for the role or sits in both the role bucket and the
\* wildcard bucket; so does the result a running lookup has returned.
C23_LookupHasNoDuplicates ==
    /\ \A role \in RoleNames \cup {"*", ""} :
            distinctIDs(getPoliciesFromCache(cache, role))
    /\ pc[Caller] \in {"decide", "done"} => distinctIDs(loc[Caller].policies)

\* a lookup for role user has returned fewer documents than it collected:
\* one document is five times in the role bucket, another is in the role
\* bucket and in the wildcard bucket
C23_Witness ==
    /\ pc[Caller] = "decide"
    /\ call[Caller].req.role = RoleUser
    /\ Len(bucketOf(cache, RoleUser)) = 6
    /\ \E i \in 1..Len(bucketOf(cache, RoleUser)) : \E k \in 1..Len(bucketOf(cache, "*")) :
            bucketOf(cache, RoleUser)[i].id = bucketOf(cache, "*")[k].id
    /\ Len(loc[Caller].found) = 7
    /\ Len(loc[Caller].policies) = 2

-----------------------------------------------------------------------------
(* SpecBoot: the server process.  main runs InitializeDefaultPolicies on   *)
(* the store it finds, then builds the engine and serves evaluations; the  *)
(* process can stop and start again on the store it left.                  *)

Count_ActiveOnly(rows) == Len(GetActive(rows))

\* db.Model(&entities.PolicyDocument{}).Count(&count): the rows of the table
Count(rows) == Len(rows)

\* the stores a first start can find
BootStores == {<<>>, <<InactivePolicy>>, <<PublicPolicy>>, <<InactivePolicy, DenyDeletePolicy>>}

BootRequests ==
    {PermissionRequest("u1", role, resource, action, resourceId, EmptyMap) :
        role \in {RoleUser, RoleAdmin},
        resource \in {"product:create", "product:read", "product:update",
                      "product:delete", "product:list", "user:create"},
        action \in {"create", "read", "update", "delete", "list"},
        resourceId \in {"", "r1"}}

InitBoot ==
    /\ store \in BootStores
    /\ cache = EmptyCache
    /\ mutex = [writer |-> "none", readers |-> {}]
    /\ pc = [p \in Procs |-> "idle"]
    /\ call = [p \in Procs |-> IdleCall]
    /\ loc = [p \in Procs |-> IdleLoc]
    /\ ghost = GhostInit(EmptyCache)
    /\ probe = IdleProbe
    /\ svc = IdleSvc
    /\ boot = IdleBoot
    /\ conv = IdleConv
    /\ http = IdleHTTP
    /\ db = EmptyDB

\* initializePoliciesWithModel: the count fails
BootCountFails ==
    /\ boot.phase = "off"
    /\ boot' = [phase |-> "booted", before |-> store, err |-> "ErrStore"]
    /\ UNCHANGED <<store, cache, mutex, pc, call, loc, ghost, probe, svc, conv, http, db>>

\* initializePoliciesWithModel: count > 0, nothing is created
BootSkip ==
    /\ boot.phase = "off"
    /\ Count(store) > 0
    /\ boot' = [phase |-> "booted", before |-> store, err |-> "nil"]
    /\ UNCHANGED <<store, cache, mutex, pc, call, loc, ghost, probe, svc, conv, http, db>>

\* createFunc of InitializeDefaultPolicies: one transaction per document, the
\* first failure ends the loop; created is the number of documents created
BootCreate(created) ==
    /\ boot.phase = "off"
    /\ ~(Count(store) > 0)
    /\ store' = store \o SubSeq(<<AdminPolicy, UserPolicy>>, 1, created)
    /\ boot' = [phase |-> "booted", before |-> store,
                err |-> IF created = 2 THEN "nil" ELSE "ErrStore"]
    /\ UNCHANGED <<cache, mutex, pc, call, loc, ghost, probe, svc, conv, http, db>>

InitializeDefaultPolicies ==
    \/ BootCountFails
    \/ BootSkip
    \/ \E created \in 0..2 : BootCreate(created)

\* main: logger.Fatal when InitializeDefaultPolicies returns an error
BootFatal ==
    /\ boot.phase = "booted"
    /\ boot.err # "nil"
    /\ boot' = [boot EXCEPT !.phase = "off"]
    /\ UNCHANGED <<store, cache, mutex, pc, call, loc, ghost, probe, svc, conv, http, db>>

\* NewServer: NewPolicyEngine loads the cache, or leaves it empty when the
\* first LoadPolicies fails
NewPolicyEngine ==
    /\ boot.phase = "booted"
    /\ boot.err = "nil"
    /\ cache' \in {rebuildCache(GetActive(store)), EmptyCache}
    /\ ghost' = GhostInit(cache')
    /\ boot' = [boot EXCEPT !.phase = "serving"]
    /\ UNCHANGED <<store, mutex, pc, call, loc, probe, svc, conv, http, db>>

\* the process ends; the store stays, the engine is gone
Shutdown ==
    /\ boot.phase = "serving"
    /\ pc[Caller] = "idle"
    /\ cache' = EmptyCache
    /\ ghost' = GhostInit(EmptyCache)
    /\ boot' = [boot EXCEPT !.phase = "off"]
    /\ UNCHANGED <<store, mutex, pc, call, loc, probe, svc, conv, http, db>>

NextBoot ==
    \/ InitializeDefaultPolicies
    \/ BootFatal
    \/ NewPolicyEngine
    \/ Shutdown
    \/ /\ boot.phase = "serving"
       /\ \E req \in BootRequests : StartEvaluate(Caller, req, FALSE)
    \/ LookupRLock(Caller) \/ LookupRole(Caller) \/ LookupGlobal(Caller)
    \/ LookupReturn(Caller) \/ EvaluateDecide(Caller)
    \/ Return(Caller)

SpecBoot == InitBoot /\ [][NextBoot]_vars

\* C12: with exactly the two bootstrap documents in the cache, role user
\* without resourceId is allowed, by "user-product-access" alone, the pairs
\* (product:a, a) for a in create, read, update, delete, list, and is denied
\* every other pair with "no matching policy found"; role admin is allowed
\* every pair by "admin-full-access".
C12_BootstrapDecisions ==
    \A p \in Evaluated :
        LET req == call[p].req
            response == loc[p].result.response
            productPairs == {<<"product:create", "create">>, <<"product:read", "read">>,
                             <<"product:update", "update">>, <<"product:delete", "delete">>,
                             <<"product:list", "list">>}
        IN  ( /\ {d.name : d \in cached} = {"admin-full-access", "user-product-access"}
              /\ loc[p].seen = cache ) =>
                /\ (req.role = "user" /\ req.resourceId = "") =>
                        IF <<req.resource, req.action>> \in productPairs
                        THEN /\ response.allowed = TRUE
                             /\ response.policies = <<"user-product-access">>
                        ELSE /\ response.allowed = FALSE
                             /\ response.reason = "no matching policy found"
                /\ req.role = "admin" =>
                        /\ response.allowed = TRUE
                        /\ response.policies = <<"admin-full-access">>

\* the bootstrap has filled an empty store, and role user is refused
\* user:create/create for want of a matching statement
C12_Witness ==
    \E p \in Evaluated :
        /\ boot.before = <<>>
        /\ {d.name : d \in cached} = {"admin-full-access", "user-product-access"}
        /\ call[p].req.role = "user"
        /\ call[p].req.resource = "user:create"
        /\ call[p].req.action = "create"
        /\ call[p].req.resourceId = ""
        /\ loc[p].result.response.reason = "no matching policy found"

\* the default documents are the last two rows of the store
defaultsCreated ==
    /\ Len(store) = Len(boot.before) + 2
    /\ SubSeq(store, 1, Len(boot.before)) = boot.before
    /\ store[Len(store) - 1].name = "admin-full-access"
    /\ store[Len(store)].name = "user-product-access"

\* C17 as claimed: a bootstrap that returns nil has created the two default
\* documents if and only if the store held no active document, and has left
\* the store as it was otherwise.
C17_BootstrapWhenNoActive ==
    (boot.phase = "booted" /\ boot.err = "nil") =>
        LET noActive == \A i \in 1..Len(boot.before) : ~boot.before[i].isActive
        IN  IF noActive THEN defaultsCreated ELSE store = boot.before

\* C17 amended: a bootstrap that returns nil has created the two default
\* documents if and only if the store held no document at all, active or
\* not, and has left the store as it was otherwise; so a bootstrap that finds
\* the default documents creates nothing.
C17_BootstrapWhenEmpty ==
    (boot.phase = "booted" /\ boot.err = "nil") =>
        IF boot.before = <<>> THEN defaultsCreated ELSE store = boot.before

\* a second start finds the default documents of the first and creates
\* nothing
C17_Witness ==
    /\ boot.phase = "booted"
    /\ boot.err = "nil"
    /\ Len(boot.before) = 2
    /\ boot.before[1].name = "admin-full-access"
    /\ boot.before[2].name = "user-product-access"
    /\ store = boot.before

-----------------------------------------------------------------------------
(* The authorization service and its callers, as functions of the cache c  *)
(* of the engine, the rows of the policy store and the context carrier.    *)
(* The service holds the engine behind the PolicyEngine interface:         *)
(* engineFails says that Evaluate returns an error.                        *)

ErrUserRoleNotFound ==
    ErrorValue("AppError", "unauthorized", "USER_ROLE_NOT_FOUND", "", "", "", "")

StoreError == ErrorValue("error", "", "", "", "", "", "")

NewInternalError(code) == ErrorValue("AppError", "internal", code, "", "", "", "")

NewPermissionError(userRole, resource, action, reason) ==
    ErrorValue("PermissionError", "", "", userRole, resource, action, reason)

\* Evaluate, from the nil check to the response, on cache c
Evaluate(c, req) ==
    IF req.isNil THEN InvalidRequestResult
    ELSE decide(getPoliciesFromCache(c, req.role), req)

\* s.policyEngine.Evaluate(ctx, req)
engineEvaluate(c, req, engineFails) ==
    IF engineFails THEN [response |-> NoResult.response, err |-> "ErrEngine"]
    ELSE Evaluate(c, req)

CheckResourcePermission_EvaluatesFirst(c, ctx, userID, resource, action, resourceID, engineFails) ==
    LET role == validateUserRole(ctx)
        req == checkResourcePermissionRequest(ctx, userID, resource, action, resourceID)
        result == engineEvaluate(c, req, engineFails)
    IN  IF result.err # "nil"
        THEN [err |-> NewPermissionError(role.role, resource, action, "policy evaluation failed"),
              evaluations |-> 1]
        ELSE IF role.err # "nil" THEN [err |-> ErrUserRoleNotFound, evaluations |-> 1]
        ELSE IF ~result.response.allowed
        THEN [err |-> NewPermissionError(role.role, resource, action, result.response.reason),
              evaluations |-> 1]
        ELSE [err |-> NilError, evaluations |-> 1]

CheckResourcePermission(c, ctx, userID, resource, action, resourceID, engineFails) ==
    LET role == validateUserRole(ctx)
        req == checkResourcePermissionRequest(ctx, userID, resource, action, resourceID)
        result == engineEvaluate(c, req, engineFails)
    IN  IF role.err # "nil" THEN [err |-> ErrUserRoleNotFound, evaluations |-> 0]
        ELSE IF result.err # "nil"
        THEN [err |-> NewPermissionError(role.role, resource, action, "policy evaluation failed"),
              evaluations |-> 1]
        ELSE IF ~result.response.allowed
        THEN [err |-> NewPermissionError(role.role, resource, action, result.response.reason),
              evaluations |-> 1]
        ELSE [err |-> NilError, evaluations |-> 1]

CheckPermission(c, ctx, userID, resource, action, engineFails) ==
    CheckResourcePermission(c, ctx, userID, resource, action, "", engineFails)

\* the rows of the JOIN of GetByRole for one document: one per statement
\* whose principal is "role:"+role or "*"
RECURSIVE joinStatements(_, _, _)
joinStatements(policy, role, j) ==
    IF j > Len(policy.statements) THEN <<>>
    ELSE (IF policy.statements[j].principal = RolePrefix \o Chars(role)
             \/ policy.statements[j].principal = WildcardKey
          THEN <<policy>> ELSE <<>>)
         \o joinStatements(policy, role, j + 1)

RECURSIVE joinPolicies(_, _, _)
joinPolicies(rows, role, i) ==
    IF i > Len(rows) THEN <<>>
    ELSE (IF rows[i].isActive THEN joinStatements(rows[i], role, 1) ELSE <<>>)
         \o joinPolicies(rows, role, i + 1)

\* GetByRole: the active documents with a statement for the role or for
\* "*", each with all its statements, once
GetByRole(rows, role) == dedupFrom(joinPolicies(rows, role, 1), 1, {}, <<>>)

Permission(resource, action, role) ==
    [resource |-> resource, action |-> action, role |-> role, resourceId |-> ""]

RECURSIVE statementPermissions_AllEffects(_, _, _)
statementPermissions_AllEffects(policy, j, userRole) ==
    IF j > Len(policy.statements) THEN <<>>
    ELSE <<Permission(policy.statements[j].resource, policy.statements[j].action,
                      userRole)>>
         \o statementPermissions_AllEffects(policy, j + 1, userRole)

RECURSIVE statementPermissions(_, _, _)
statementPermissions(policy, j, userRole) ==
    IF j > Len(policy.statements) THEN <<>>
    ELSE (IF policy.statements[j].effect = PolicyEffectAllow
          THEN <<Permission(policy.statements[j].resource, policy.statements[j].action,
                            userRole)>>
          ELSE <<>>)
         \o statementPermissions(policy, j + 1, userRole)

RECURSIVE policyPermissions(_, _, _)
policyPermissions(policies, i, userRole) ==
    IF i > Len(policies) THEN <<>>
    ELSE statementPermissions(policies[i], 1, userRole)
         \o policyPermissions(policies, i + 1, userRole)

extractPermissionsFromPolicies(policies, userRole) ==
    policyPermissions(policies, 1, userRole)

GetUserPermissions(rows, ctx, storeFails) ==
    LET role == validateUserRole(ctx)
    IN  IF role.err # "nil" THEN [permissions |-> <<>>, err |-> ErrUserRoleNotFound]
        ELSE IF storeFails THEN [permissions |-> <<>>, err |-> StoreError]
        ELSE [permissions |-> extractPermissionsFromPolicies(GetByRole(rows, role.role),
                                                              role.role),
              err |-> NilError]

\* the loop of GetEffectivePermissions from permission k on
\* GetAllowedActionsForRole: the actions of the permissions on the resource,
\* for a context that carries only the role
GetAllowedActionsForRole(rows, userRole, resource, storeFails) ==
    LET listed == GetUserPermissions(rows, ContextUserRole :> StrVal(userRole), storeFails)
        onResource(p) == p.resource = resource
        kept == SelectSeq(listed.permissions, onResource)
    IN  IF listed.err # NilError THEN [actions |-> <<>>, err |-> listed.err]
        ELSE [actions |-> [k \in 1..Len(kept) |-> kept[k].action], err |-> NilError]

RECURSIVE effectiveFrom(_, _, _, _, _, _, _)
effectiveFrom(permissions, k, c, userID, userRole, contextData, engineFails) ==
    IF k > Len(permissions) THEN <<>>
    ELSE LET req == PermissionRequest(userID, userRole, permissions[k].resource,
                                      permissions[k].action, "", contextData)
             result == engineEvaluate(c, req, engineFails)
         IN  (IF result.err = "nil" /\ result.response.allowed
              THEN <<permissions[k]>> ELSE <<>>)
             \o effectiveFrom(permissions, k + 1, c, userID, userRole, contextData,
                              engineFails)

GetEffectivePermissions_NoEvaluation(c, rows, ctx, userID, storeFails, engineFails) ==
    LET listed == GetUserPermissions(rows, ctx, storeFails)
    IN  [permissions |-> listed.permissions, err |-> listed.err, evaluations |-> 0]

GetEffectivePermissions(c, rows, ctx, userID, storeFails, engineFails) ==
    LET listed == GetUserPermissions(rows, ctx, storeFails)
    IN  IF listed.err # NilError
        THEN [permissions |-> <<>>, err |-> listed.err, evaluations |-> 0]
        ELSE [permissions |->
                effectiveFrom(listed.permissions, 1, c, userID, validateUserRole(ctx).role,
                              buildContextData(ctx, ""), engineFails),
              err |-> NilError, evaluations |-> Len(listed.permissions)]

-----------------------------------------------------------------------------
(* The public product routes: handler, use case and generic repository.   *)

\* uuid.Nil
NilUUID == "00000000-0000-0000-0000-000000000000"

\* the key "user_id" as a plain string, which no ContextKey equals
PlainUserIDKey == "string(user_id)"

\* the context of a request on a route without middleware
PublicRouteContext == EmptyMap

\* the rows of the products table
Products == <<"prod-1", "prod-2">>

getUserIDFromContext(ctx) ==
    IF hasTyped(ctx, PlainUserIDKey, "uuid") THEN ctx[PlainUserIDKey].v ELSE NilUUID

\* CleanBaseRepositoryImpl[Product].ValidateAccess, resourceName "product"
ValidateAccess(c, ctx, userID, action, engineFails) ==
    CheckPermission(c, ctx, userID, "product", action, engineFails)

\* CleanBaseRepositoryImpl.List
repositoryList(c, ctx, userID, engineFails) ==
    LET access == ValidateAccess(c, ctx, userID, "list", engineFails)
    IN  IF access.err # NilError
        THEN [entities |-> <<>>, err |-> access.err, evaluations |-> access.evaluations]
        ELSE [entities |-> Products, err |-> NilError, evaluations |-> access.evaluations]

\* CleanBaseRepositoryImpl.GetByID
repositoryGetByID(c, ctx, id, userID, engineFails) ==
    LET access == ValidateAccess(c, ctx, userID, "read", engineFails)
    IN  IF access.err # NilError
        THEN [entities |-> <<>>, err |-> access.err, evaluations |-> access.evaluations]
        ELSE IF \E k \in 1..Len(Products) : Products[k] = id
        THEN [entities |-> <<id>>, err |-> NilError, evaluations |-> access.evaluations]
        ELSE [entities |-> <<>>,
              err |-> ErrorValue("AppError", "not_found", "product_NOT_FOUND", "", "", "", ""),
              evaluations |-> access.evaluations]

\* ProductHandler.ListProducts over productUseCase.List
ListProducts(c, ctx, engineFails) ==
    LET listed == repositoryList(c, ctx, getUserIDFromContext(ctx), engineFails)
    IN  [status |-> IF listed.err # NilError THEN 500 ELSE 200,
         body |-> listed.entities, err |-> listed.err, evaluations |-> listed.evaluations]

\* ProductHandler.GetProductByID over productUseCase.GetByID
GetProductByID(c, ctx, id, engineFails) ==
    LET found == repositoryGetByID(c, ctx, id, getUserIDFromContext(ctx), engineFails)
    IN  [status |-> IF found.err # NilError THEN 404 ELSE 200,
         body |-> found.entities, err |-> found.err, evaluations |-> found.evaluations]

-----------------------------------------------------------------------------
(* SpecService: one caller of the service and of the public routes, on an  *)
(* engine whose cache was loaded from the store as it is or as it was.     *)

\* one document with a statement for each of the two roles
SharedPolicy ==
    PolicyDocument("id-shared", "catalog-access",
        <<Statement(PolicyEffectAllow, RolePrincipal(RoleUser), "read", "product:read", EmptyMap),
          Statement(PolicyEffectAllow, RolePrincipal(RoleAdmin), "delete", "product:delete",
                    EmptyMap)>>,
        TRUE)

SvcStores ==
    {<<>>, BootstrapStore, <<UserPolicy, DenyDeletePolicy>>,
     <<DenyThenAllowPolicy, OwnerPolicy>>, <<AllowThenDenyPolicy, InactivePolicy>>,
     <<EmptyRolePolicy, PublicPolicy>>, <<SharedPolicy>>, <<OwnerPolicy>>}

SvcCarriers ==
    {EmptyMap,
     (ContextUserRole :> StrVal(RoleUser)) @@ (ContextUserID :> UUIDVal("u1")),
     (ContextUserRole :> StrVal(RoleAdmin)) @@ (ContextClientIP :> StrVal("10.0.0.1")),
     (ContextUserRole :> StrVal("")) @@ (ContextUserID :> UUIDVal("u1")),
     (ContextUserRole :> BoolVal("true")) @@ (ContextUserEmail :> StrVal("a@b.c"))}

SvcPairs ==
    {<<"product:delete", "delete">>, <<"product:read", "read">>,
     <<"user:create", "create">>, <<"product", "list">>}

InitService ==
    /\ store \in SvcStores
    /\ cache \in {rebuildCache(GetActive(rows)) : rows \in SvcStores}
    /\ mutex = [writer |-> "none", readers |-> {}]
    /\ pc = [p \in Procs |-> "idle"]
    /\ call = [p \in Procs |-> IdleCall]
    /\ loc = [p \in Procs |-> IdleLoc]
    /\ ghost = GhostInit(cache)
    /\ probe = IdleProbe
    /\ svc = IdleSvc
    /\ boot = IdleBoot
    /\ conv = IdleConv
    /\ http = IdleHTTP
    /\ db = EmptyDB

CallCheckPermission ==
    /\ svc.phase = "idle"
    /\ \E ctx \in SvcCarriers, ra \in SvcPairs, engineFails \in BOOLEAN :
        LET out == CheckPermission(cache, ctx, "u1", ra[1], ra[2], engineFails)
        IN  svc' = [IdleSvc EXCEPT !.phase = "done", !.api = "CheckPermission",
                        !.ctx = ctx, !.userID = "u1", !.resource = ra[1],
                        !.action = ra[2], !.engineFails = engineFails,
                        !.err = out.err, !.evaluations = out.evaluations]
    /\ UNCHANGED <<store, cache, mutex, pc, call, loc, ghost, probe, boot, conv, http, db>>

CallCheckResourcePermission ==
    /\ svc.phase = "idle"
    /\ \E ctx \in SvcCarriers, ra \in SvcPairs, resourceID \in {"", "r1"},
          engineFails \in BOOLEAN :
        LET out == CheckResourcePermission(cache, ctx, "u1", ra[1], ra[2], resourceID,
                                           engineFails)
        IN  svc' = [IdleSvc EXCEPT !.phase = "done", !.api = "CheckResourcePermission",
                        !.ctx = ctx, !.userID = "u1", !.resource = ra[1],
                        !.action = ra[2], !.resourceID = resourceID,
                        !.engineFails = engineFails,
                        !.err = out.err, !.evaluations = out.evaluations]
    /\ UNCHANGED <<store, cache, mutex, pc, call, loc, ghost, probe, boot, conv, http, db>>

CallGetUserPermissions ==
    /\ svc.phase = "idle"
    /\ \E ctx \in SvcCarriers, storeFails \in BOOLEAN :
        LET out == GetUserPermissions(store, ctx, storeFails)
        IN  svc' = [IdleSvc EXCEPT !.phase = "done", !.api = "GetUserPermissions",
                        !.ctx = ctx, !.userID = "u1", !.storeFails = storeFails,
                        !.err = out.err, !.permissions = out.permissions]
    /\ UNCHANGED <<store, cache, mutex, pc, call, loc, ghost, probe, boot, conv, http, db>>

CallGetEffectivePermissions ==
    /\ svc.phase = "idle"
    /\ \E ctx \in SvcCarriers, storeFails \in BOOLEAN, engineFails \in BOOLEAN :
        LET out == GetEffectivePermissions(cache, store, ctx, "u1", storeFails, engineFails)
        IN  svc' = [IdleSvc EXCEPT !.phase = "done", !.api = "GetEffectivePermissions",
                        !.ctx = ctx, !.userID = "u1", !.storeFails = storeFails,
                        !.engineFails = engineFails, !.err = out.err,
                        !.permissions = out.permissions,
                        !.evaluations = out.evaluations]
    /\ UNCHANGED <<store, cache, mutex, pc, call, loc, ghost, probe, boot, conv, http, db>>

CallGetAllowedActionsForRole ==
    /\ svc.phase = "idle"
    /\ \E userRole \in {RoleUser, RoleAdmin, ""}, ra \in SvcPairs, storeFails \in BOOLEAN :
        LET out == GetAllowedActionsForRole(store, userRole, ra[1], storeFails)
        IN  svc' = [IdleSvc EXCEPT !.phase = "done", !.api = "GetAllowedActionsForRole",
                        !.ctx = ContextUserRole :> StrVal(userRole),
                        !.resource = ra[1], !.storeFails = storeFails,
                        !.err = out.err, !.body = out.actions]
    /\ UNCHANGED <<store, cache, mutex, pc, call, loc, ghost, probe, boot, conv, http, db>>

\* the five operations of the generic repository
CrudActions == {"create", "read", "update", "delete", "list"}

\* the resource that the middleware of the product routes checks for an
\* action: PermissionProductCreate .. PermissionProductList
PermissionProduct(action) ==
    CASE action = "create" -> "product:create"
      [] action = "read" -> "product:read"
      [] action = "update" -> "product:update"
      [] action = "delete" -> "product:delete"
      [] action = "list" -> "product:list"

\* a use case calls an operation of the product repository, which starts
\* with ValidateAccess
CallValidateAccess ==
    /\ svc.phase = "idle"
    /\ \E ctx \in SvcCarriers, action \in CrudActions, engineFails \in BOOLEAN :
        LET out == ValidateAccess(cache, ctx, "u1", action, engineFails)
        IN  svc' = [IdleSvc EXCEPT !.phase = "done", !.api = "ValidateAccess",
                        !.ctx = ctx, !.userID = "u1", !.resource = "product",
                        !.action = action, !.engineFails = engineFails,
                        !.err = out.err, !.evaluations = out.evaluations]
    /\ UNCHANGED <<store, cache, mutex, pc, call, loc, ghost, probe, boot, conv, http, db>>

\* GET /api/v1/products
ServeListProducts ==
    /\ svc.phase = "idle"
    /\ LET out == ListProducts(cache, PublicRouteContext, FALSE)
       IN  svc' = [IdleSvc EXCEPT !.phase = "done", !.api = "GET /api/v1/products",
                        !.ctx = PublicRouteContext, !.err = out.err,
                        !.evaluations = out.evaluations, !.status = out.status,
                        !.body = out.body]
    /\ UNCHANGED <<store, cache, mutex, pc, call, loc, ghost, probe, boot, conv, http, db>>

\* GET /api/v1/products/:id
ServeGetProductByID ==
    /\ svc.phase = "idle"
    /\ \E id \in {"prod-1", "prod-9"} :
        LET out == GetProductByID(cache, PublicRouteContext, id, FALSE)
        IN  svc' = [IdleSvc EXCEPT !.phase = "done", !.api = "GET /api/v1/products/:id",
                        !.ctx = PublicRouteContext, !.resourceID = id, !.err = out.err,
                        !.evaluations = out.evaluations, !.status = out.status,
                        !.body = out.body]
    /\ UNCHANGED <<store, cache, mutex, pc, call, loc, ghost, probe, boot, conv, http, db>>

SvcReturn ==
    /\ svc.phase = "done"
    /\ svc' = IdleSvc
    /\ UNCHANGED <<store, cache, mutex, pc, call, loc, ghost, probe, boot, conv, http, db>>

NextService ==
    \/ CallCheckPermission
    \/ CallCheckResourcePermission
    \/ CallGetUserPermissions
    \/ CallGetEffectivePermissions
    \/ CallGetAllowedActionsForRole
    \/ CallValidateAccess
    \/ ServeListProducts
    \/ ServeGetProductByID
    \/ SvcReturn

SpecService == InitService /\ [][NextService]_vars

\* the context carries a role: a non-empty string under the role key
roleInContext ==
    /\ "user_role" \in DOMAIN svc.ctx
    /\ svc.ctx["user_role"].t = "string"
    /\ svc.ctx["user_role"].v # ""

\* C13: CheckPermission and CheckResourcePermission on a context without a
\* role, or with an empty one, return the unauthorized error "user role not
\* found" (USER_ROLE_NOT_FOUND) and have not called Evaluate.
C13_MissingRoleIsUnauthorized ==
    ( /\ svc.phase = "done"
      /\ svc.api \in {"CheckPermission", "CheckResourcePermission"}
      /\ ~roleInContext ) =>
        /\ svc.err.type = "AppError"
        /\ svc.err.category = "unauthorized"
        /\ svc.err.code = "USER_ROLE_NOT_FOUND"
        /\ svc.evaluations = 0

\* the role is the empty string, asked of an engine that would fail
C13_Witness ==
    /\ svc.phase = "done"
    /\ svc.api = "CheckResourcePermission"
    /\ "user_role" \in DOMAIN svc.ctx
    /\ svc.ctx["user_role"] = [t |-> "string", v |-> ""]
    /\ svc.engineFails
    /\ svc.err.code = "USER_ROLE_NOT_FOUND"
    /\ svc.evaluations = 0

\* the request the service hands to the engine for the finished call
svcRequest ==
    [isNil |-> FALSE, userId |-> svc.userID, role |-> svc.ctx["user_role"].v,
     resource |-> svc.resource, action |-> svc.action, resourceId |-> svc.resourceID,
     context |-> buildContextData(svc.ctx, svc.resourceID)]

\* C14: with a role in the context, CheckPermission and
\* CheckResourcePermission return nil exactly when Evaluate returns no error
\* and allowed=true; on allowed=false they return a permission-denied error
\* with the role, the resource, the action and the engine's reason; and when
\* Evaluate itself returns an error, the error they return is not of the
\* permission-denied kind.
C14_EngineFailureIsNotDenial ==
    ( /\ svc.phase = "done"
      /\ svc.api \in {"CheckPermission", "CheckResourcePermission"}
      /\ roleInContext ) =>
        LET response == Evaluate(cache, svcRequest).response
        IN  /\ svc.err.type = "nil" <=> (~svc.engineFails /\ response.allowed)
            /\ (~svc.engineFails /\ ~response.allowed) =>
                    svc.err = [type |-> "PermissionError", category |-> "", code |-> "",
                               userRole |-> svc.ctx["user_role"].v,
                               resource |-> svc.resource, action |-> svc.action,
                               reason |-> response.reason]
            /\ svc.engineFails => svc.err.type \notin {"nil", "PermissionError"}

\* the allow statements of a document as permissions of the role
allowPermissions(policy, role) ==
    LET isAllow(st) == st.effect = "allow"
        allows == SelectSeq(policy.statements, isAllow)
    IN  [k \in 1..Len(allows) |->
            [resource |-> allows[k].resource, action |-> allows[k].action,
             role |-> role, resourceId |-> ""]]

RECURSIVE allowPermissionsOf(_, _)
allowPermissionsOf(policies, role) ==
    IF policies = <<>> THEN <<>>
    ELSE allowPermissions(Head(policies), role) \o allowPermissionsOf(Tail(policies), role)

\* C15: GetUserPermissions returns, for the role of the context, one
\* permission (resource, action, that role) per allow statement of the
\* documents the store returns for the role, in the order of documents and
\* statements, and none for a deny statement; without a role it fails with
\* the role-missing error, and when the store query fails it returns the
\* error of the store.
C15_PermissionsAreAllowStatements ==
    (svc.phase = "done" /\ svc.api = "GetUserPermissions") =>
        IF ~roleInContext
        THEN svc.err.code = "USER_ROLE_NOT_FOUND" /\ svc.permissions = <<>>
        ELSE IF svc.storeFails
        THEN svc.err = StoreError /\ svc.permissions = <<>>
        ELSE /\ svc.err.type = "nil"
             /\ svc.permissions =
                    allowPermissionsOf(GetByRole(store, svc.ctx["user_role"].v),
                                       svc.ctx["user_role"].v)

\* two documents are returned for the role, one of them holds a deny
\* statement, and the permissions are those of the allow statements only
C15_Witness ==
    /\ svc.phase = "done"
    /\ svc.api = "GetUserPermissions"
    /\ roleInContext
    /\ svc.err.type = "nil"
    /\ LET docs == GetByRole(store, svc.ctx["user_role"].v)
       IN  /\ Len(docs) = 2
           /\ \E i \in 1..Len(docs) : \E j \in 1..Len(docs[i].statements) :
                    docs[i].statements[j].effect = "deny"
           /\ Len(svc.permissions) > 1
           /\ Len(svc.permissions) < Len(docs[1].statements) + Len(docs[2].statements)

\* C16: GetEffectivePermissions returns, in order, the permissions p of
\* GetUserPermissions for which Evaluate of the request (role of the
\* context, p.resource, p.action, no resourceId, the context data) returns
\* no error and allowed=true.
C16_EffectiveAreAllowedNow ==
    ( /\ svc.phase = "done"
      /\ svc.api = "GetEffectivePermissions"
      /\ svc.err.type = "nil" ) =>
        LET role == svc.ctx["user_role"].v
            allowedNow(p) ==
                /\ ~svc.engineFails
                /\ Evaluate(cache,
                        [isNil |-> FALSE, userId |-> svc.userID, role |-> role,
                         resource |-> p.resource, action |-> p.action, resourceId |-> "",
                         context |-> buildContextData(svc.ctx, "")]).response.allowed
        IN  svc.permissions =
                SelectSeq(allowPermissionsOf(GetByRole(store, role), role), allowedNow)

\* some of the listed permissions are kept and some are dropped
C16_Witness ==
    /\ svc.phase = "done"
    /\ svc.api = "GetEffectivePermissions"
    /\ svc.err.type = "nil"
    /\ ~svc.engineFails
    /\ Len(svc.permissions) > 0
    /\ Len(svc.permissions) < Len(GetUserPermissions(store, svc.ctx, FALSE).permissions)

\* an active document of the store has an allow statement for that resource
\* and action whose principal is "*" or "role:<role>"
allowAddressedTo(role, resource, action) ==
    \E i \in 1..Len(store) : \E j \in 1..Len(store[i].statements) :
        /\ store[i].isActive
        /\ store[i].statements[j].effect = "allow"
        /\ store[i].statements[j].resource = resource
        /\ store[i].statements[j].action = action
        /\ store[i].statements[j].principal \in {<<"*">>, <<"r", "o", "l", "e", ":">> \o Chars(role)}

\* C26: every permission GetUserPermissions returns for role r, and every
\* action GetAllowedActionsForRole returns for r and a resource, comes from
\* an allow statement whose principal is "*" or "role:r"; an allow statement
\* addressed to another role is not listed for r.
C26_PermissionsAreOfTheRole ==
    /\ (svc.phase = "done" /\ svc.api = "GetUserPermissions" /\ svc.err.type = "nil") =>
            \A k \in 1..Len(svc.permissions) :
                allowAddressedTo(svc.ctx["user_role"].v, svc.permissions[k].resource,
                                 svc.permissions[k].action)
    /\ (svc.phase = "done" /\ svc.api = "GetAllowedActionsForRole" /\ svc.err.type = "nil") =>
            \A k \in 1..Len(svc.body) :
                allowAddressedTo(svc.ctx["user_role"].v, svc.resource, svc.body[k])

\* who owns the resources the calls name
ResourceOwners == "r1" :> "u1"

\* the statements, in the documents the cache gives the role, that match the
\* finished call on principal, action and resource
addressedToCall ==
    LET policies == getPoliciesFromCache(cache, svc.ctx["user_role"].v)
    IN  {st \in UNION {{policies[i].statements[j] : j \in 1..Len(policies[i].statements)} :
                        i \in 1..Len(policies)} :
            /\ matchesPrincipal(st.principal, svc.ctx["user_role"].v)
            /\ matchesAction(st.action, svc.action)
            /\ matchesResource(st.resource, svc.resource)}

\* C30: when the only statements that match the call on principal, action
\* and resource are allow statements with a resource_owner condition, and
\* the caller owns the resource the call names, CheckResourcePermission with
\* that non-empty resourceId returns nil.
C30_OwnerReachesOwnResource ==
    ( /\ svc.phase = "done"
      /\ svc.api = "CheckResourcePermission"
      /\ roleInContext
      /\ ~svc.engineFails
      /\ svc.resourceID \in DOMAIN ResourceOwners
      /\ ResourceOwners[svc.resourceID] = svc.userID
      /\ hasTyped(svc.ctx, ContextUserID, "uuid")
      /\ svc.ctx[ContextUserID].v = svc.userID
      /\ addressedToCall # {}
      /\ \A st \in addressedToCall :
            st.effect = "allow" /\ DOMAIN st.conditions = {"resource_owner"} ) =>
        svc.err = NilError

\* C28: with the cache loaded from the bootstrap policies, ValidateAccess of
\* the product repository for an action allows exactly when the check of the
\* middleware for that action, on the resource "product:<action>", allows.
C28_RepositoryAgreesWithMiddleware ==
    (/\ svc.phase = "done"
     /\ svc.api = "ValidateAccess"
     /\ ~svc.engineFails
     /\ cache = rebuildCache(GetActive(BootstrapStore)))
    => ((svc.err = NilError)
        <=> (CheckPermission(cache, svc.ctx, svc.userID, PermissionProduct(svc.action),
                             svc.action, FALSE).err = NilError))

\* C20: a GET /api/v1/products or GET /api/v1/products/:id request without a
\* token is served from the product repository (status 200 with the rows,
\* or the product asked for when it exists) and no authorization check
\* rejects it.
C20_PublicProductReads ==
    (svc.phase = "done" /\ svc.api \in {"GET /api/v1/products", "GET /api/v1/products/:id"}) =>
        /\ svc.err.category \notin {"unauthorized", "forbidden"}
        /\ svc.err.type # "PermissionError"
        /\ svc.api = "GET /api/v1/products" =>
                svc.status = 200 /\ svc.body = <<"prod-1", "prod-2">>
        /\ (svc.api = "GET /api/v1/products/:id" /\ svc.resourceID = "prod-1") =>
                svc.status = 200 /\ svc.body = <<"prod-1">>

-----------------------------------------------------------------------------
(* The generic repository over the tables of the database.  An operation   *)
(* answers with its error, the rows it returns, the database it leaves and *)
(* the trace of what it did: "ValidateAccess", the statement it ran on the *)
(* database, "AuditLog".  dbFails says that the statement fails in the      *)
(* driver.                                                                 *)

\* NewNotFoundError(resource + "_NOT_FOUND", ..)
NewNotFoundError(code) == ErrorValue("AppError", "not_found", code, "", "", "", "")

\* NewDatabaseError(operation + "_" + resource + "_FAILED", ..)
NewDatabaseError(code) == ErrorValue("AppError", "database", code, "", "", "", "")

handleDatabaseError(operation, resource) ==
    NewDatabaseError(operation \o "_" \o resource \o "_FAILED")

\* the answer of a repository operation
RepoResult(err, entities, d, trace) ==
    [err |-> err, entities |-> entities, db |-> d, trace |-> trace]

\* CleanBaseRepositoryImpl.ValidateAccess with the authorization service
\* that setupRoutes hands to the repositories
RepoValidateAccess(c, resourceName, ctx, userID, action) ==
    CheckPermission(c, ctx, userID, resourceName, action, FALSE).err

\* CleanBaseRepositoryImpl.AuditLog over AuditLogger.LogAccess, which
\* writes the entry and returns nil
AuditLog(d, resourceName, userID, action) ==
    [d EXCEPT !.audit = Append(@, [userID |-> userID, action |-> action,
                                    resource |-> resourceName \o ":" \o action])]

RECURSIVE rowsWhere(_, _, _, _)
\* the rows whose id is (keep) or is not (~keep) the given id
rowsWhere(rows, id, keep, i) ==
    IF i > Len(rows) THEN <<>>
    ELSE (IF (rows[i].id = id) = keep THEN <<rows[i]>> ELSE <<>>)
         \o rowsWhere(rows, id, keep, i + 1)

\* db.Save: the row with the id of the entity is replaced, or inserted
saveRow(rows, entity) ==
    IF \E k \in 1..Len(rows) : rows[k].id = entity.id
    THEN [k \in 1..Len(rows) |-> IF rows[k].id = entity.id THEN entity ELSE rows[k]]
    ELSE Append(rows, entity)

\* a mutant: the row is written before access is validated
RepoCreate_WritesFirst(c, d, resourceName, ctx, entity, userID, dbFails) ==
    LET access == RepoValidateAccess(c, resourceName, ctx, userID, "create")
        written == [d EXCEPT ![resourceName] = Append(@, entity)]
    IN  IF access # NilError
        THEN RepoResult(access, <<>>, written, <<"db.Create", "ValidateAccess">>)
        ELSE RepoResult(NilError, <<entity>>, AuditLog(written, resourceName, userID, "create"),
                        <<"db.Create", "ValidateAccess", "AuditLog">>)

\* CleanBaseRepositoryImpl.Create; the entity carries the id that
\* BeforeCreate gave it
RepoCreate(c, d, resourceName, ctx, entity, userID, dbFails) ==
    LET access == RepoValidateAccess(c, resourceName, ctx, userID, "create")
        rows == d[resourceName]
    IN  IF access # NilError
        THEN RepoResult(access, <<>>, d, <<"ValidateAccess">>)
        ELSE IF dbFails \/ \E k \in 1..Len(rows) : rows[k].id = entity.id
        THEN RepoResult(handleDatabaseError("create", resourceName), <<>>, d,
                        <<"ValidateAccess", "db.Create">>)
        ELSE RepoResult(NilError, <<entity>>,
                        AuditLog([d EXCEPT ![resourceName] = Append(@, entity)],
                                 resourceName, userID, "create"),
                        <<"ValidateAccess", "db.Create", "AuditLog">>)

\* CleanBaseRepositoryImpl.GetByID
RepoGetByID(c, d, resourceName, ctx, id, userID, dbFails) ==
    LET access == RepoValidateAccess(c, resourceName, ctx, userID, "read")
        found == rowsWhere(d[resourceName], id, TRUE, 1)
    IN  IF access # NilError
        THEN RepoResult(access, <<>>, d, <<"ValidateAccess">>)
        ELSE IF dbFails
        THEN RepoResult(handleDatabaseError("read", resourceName), <<>>, d,
                        <<"ValidateAccess", "db.First">>)
        ELSE IF found = <<>>
        THEN RepoResult(NewNotFoundError(resourceName \o "_NOT_FOUND"), <<>>, d,
                        <<"ValidateAccess", "db.First">>)
        ELSE RepoResult(NilError, <<found[1]>>, AuditLog(d, resourceName, userID, "read"),
                        <<"ValidateAccess", "db.First", "AuditLog">>)

\* CleanBaseRepositoryImpl.Update
RepoUpdate(c, d, resourceName, ctx, entity, userID, dbFails) ==
    LET access == RepoValidateAccess(c, resourceName, ctx, userID, "update")
    IN  IF access # NilError
        THEN RepoResult(access, <<>>, d, <<"ValidateAccess">>)
        ELSE IF dbFails
        THEN RepoResult(handleDatabaseError("update", resourceName), <<>>, d,
                        <<"ValidateAccess", "db.Save">>)
        ELSE RepoResult(NilError, <<entity>>,
                        AuditLog([d EXCEPT ![resourceName] = saveRow(@, entity)],
                                 resourceName, userID, "update"),
                        <<"ValidateAccess", "db.Save", "AuditLog">>)

\* CleanBaseRepositoryImpl.Delete
RepoDelete(c, d, resourceName, ctx, id, userID, dbFails) ==
    LET access == RepoValidateAccess(c, resourceName, ctx, userID, "delete")
    IN  IF access # NilError
        THEN RepoResult(access, <<>>, d, <<"ValidateAccess">>)
        ELSE IF dbFails
        THEN RepoResult(handleDatabaseError("delete", resourceName), <<>>, d,
                        <<"ValidateAccess", "db.Delete">>)
        ELSE RepoResult(NilError, <<>>,
                        AuditLog([d EXCEPT ![resourceName] = rowsWhere(@, id, FALSE, 1)],
                                 resourceName, userID, "delete"),
                        <<"ValidateAccess", "db.Delete", "AuditLog">>)

\* CleanBaseRepositoryImpl.List: Limit(limit).Offset(offset).Find
RepoList(c, d, resourceName, ctx, limit, offset, userID, dbFails) ==
    LET access == RepoValidateAccess(c, resourceName, ctx, userID, "list")
        rows == d[resourceName]
        last == IF offset + limit < Len(rows) THEN offset + limit ELSE Len(rows)
    IN  IF access # NilError
        THEN RepoResult(access, <<>>, d, <<"ValidateAccess">>)
        ELSE IF dbFails
        THEN RepoResult(handleDatabaseError("list", resourceName), <<>>, d,
                        <<"ValidateAccess", "db.Find">>)
        ELSE RepoResult(NilError, SubSeq(rows, offset + 1, last),
                        AuditLog(d, resourceName, userID, "list"),
                        <<"ValidateAccess", "db.Find", "AuditLog">>)

\* userRepository.GetByEmail: a query on the table, without ValidateAccess
RECURSIVE usersByEmail(_, _, _)
usersByEmail(rows, email, i) ==
    IF i > Len(rows) THEN <<>>
    ELSE (IF rows[i].email = email THEN <<rows[i]>> ELSE <<>>)
         \o usersByEmail(rows, email, i + 1)

GetByEmail(d, email) ==
    LET found == usersByEmail(d.user, email, 1)
    IN  IF found = <<>>
        THEN RepoResult(StoreError, <<>>, d, <<"GetByEmail">>)
        ELSE RepoResult(NilError, <<found[1]>>, d, <<"GetByEmail">>)

-----------------------------------------------------------------------------
(* Registration.  An email and a password are sequences of characters.    *)

SystemUserID == "00000000-0000-0000-0000-000000000000"

DefaultLimit == 10

DefaultOffset == 0

Letters ==
    {"a", "b", "c", "d", "e", "f", "g", "h", "i", "j", "k", "l", "m",
     "n", "o", "p", "q", "r", "s", "t", "u", "v", "w", "x", "y", "z",
     "A", "B", "C", "D", "E", "F", "G", "H", "I", "J", "K", "L", "M",
     "N", "O", "P", "Q", "R", "S", "T", "U", "V", "W", "X", "Y", "Z"}

Digits == {"0", "1", "2", "3", "4", "5", "6", "7", "8", "9"}

\* emailRegex: ^[a-zA-Z0-9._%+-]+@[a-zA-Z0-9.-]+\.[a-zA-Z]{2,}$
emailRegex(email) ==
    \E at \in 1..Len(email), dot \in 1..Len(email) :
        /\ at > 1 /\ email[at] = "@"
        /\ dot > at + 1 /\ email[dot] = "."
        /\ Len(email) - dot >= 2
        /\ \A k \in 1..(at - 1) : email[k] \in Letters \cup Digits \cup {".", "_", "%", "+", "-"}
        /\ \A k \in (at + 1)..(dot - 1) : email[k] \in Letters \cup Digits \cup {".", "-"}
        /\ \A k \in (dot + 1)..Len(email) : email[k] \in Letters

NewValidationError(code) == ErrorValue("AppError", "validation", code, "", "", "", "")

NewConflictError(code) == ErrorValue("AppError", "conflict", code, "", "", "", "")

NewUnauthorizedError(code) == ErrorValue("AppError", "unauthorized", code, "", "", "", "")

ErrUserAlreadyExists == NewConflictError("USER_EXISTS")

ErrFailedToCreateUser == NewInternalError("USER_CREATE_FAILED")

ErrUserNotFound == NewNotFoundError("USER_NOT_FOUND")

ValidateEmail(email) ==
    IF email = <<>> THEN NewValidationError("EMAIL_REQUIRED")
    ELSE IF ~emailRegex(email) THEN NewValidationError("INVALID_EMAIL")
    ELSE NilError

ValidatePassword(password) ==
    IF password = <<>> THEN NewValidationError("PASSWORD_REQUIRED")
    ELSE IF Len(password) < 6 THEN NewValidationError("PASSWORD_TOO_SHORT")
    ELSE NilError

ValidateRegisterRequest(email, password, firstName, lastName) ==
    IF ValidateEmail(email) # NilError THEN ValidateEmail(email)
    ELSE IF ValidatePassword(password) # NilError THEN ValidatePassword(password)
    ELSE IF firstName = "" THEN NewValidationError("FIRST_NAME_REQUIRED")
    ELSE IF lastName = "" THEN NewValidationError("LAST_NAME_REQUIRED")
    ELSE NilError

\* authUseCase.createUser, with the id that BeforeCreate gives the row
createUser(newID, email, hashedPassword, firstName, lastName) ==
    [id |-> newID, email |-> email, password |-> hashedPassword,
     firstName |-> firstName, lastName |-> lastName, role |-> "user",
     isActive |-> TRUE]

\* authUseCase.Register over the user repository of setupRoutes
Register(c, d, ctx, email, password, firstName, lastName, newID, dbFails) ==
    LET invalid == ValidateRegisterRequest(email, password, firstName, lastName)
        existing == GetByEmail(d, email)
        user == createUser(newID, email, <<"bcrypt">> \o password, firstName, lastName)
        created == RepoCreate(c, d, "user", ctx, user, SystemUserID, dbFails)
    IN  IF invalid # NilError THEN RepoResult(invalid, <<>>, d, <<>>)
        ELSE IF existing.err = NilError
        THEN RepoResult(ErrUserAlreadyExists, <<>>, d, existing.trace)
        ELSE IF created.err # NilError
        THEN RepoResult(ErrFailedToCreateUser, <<>>, created.db,
                        existing.trace \o created.trace)
        ELSE RepoResult(NilError, <<user>>, created.db, existing.trace \o created.trace)

\* BaseHandler.getStatusCodeFromCategory
getStatusCodeFromCategory(category) ==
    CASE category = "validation" -> 400
      [] category = "not_found" -> 404
      [] category = "unauthorized" -> 401
      [] category = "forbidden" -> 403
      [] category = "conflict" -> 409
      [] OTHER -> 500

\* the status that BaseHandler.SendErrorResponse hands to c.JSON: errors.As
\* finds an *AppError through the wrapping of HandleError, and a
\* *PermissionError is not one
errorStatus(err, statusCode) ==
    IF err.type = "AppError" THEN getStatusCodeFromCategory(err.category)
    ELSE statusCode

-----------------------------------------------------------------------------
(* The gin chain of a request.  g is the gin.Context with what the request *)
(* works on: handlers and index, aborted (the index at abortIndex), the    *)
(* status of the response (0 while nothing is written), the keys, the      *)
(* context of c.Request, the database and the trace of the repository.     *)
(* checks lists the permission checks of the middleware, ran the route     *)
(* handlers that ran with the context they saw and the number of checks    *)
(* made before.                                                            *)

\* c.JSON(code, ..): the first write fixes the status, and a code that is
\* not positive leaves the status at 200
ginJSON(g, code) ==
    [g EXCEPT !.status = IF g.status # 0 THEN g.status
                         ELSE IF code > 0 THEN code ELSE 200]

\* c.Abort()
ginAbort(g) == [g EXCEPT !.aborted = TRUE]

\* what a repository call leaves in the request
afterRepo(g, r) == [g EXCEPT !.db = r.db, !.trace = @ \o r.trace]

\* authUseCase.ValidateToken: the token service, then validateUserForToken
ValidateToken(c, d, ctx, token, dbFails) ==
    LET found == RepoGetByID(c, d, "user", ctx, token.userID, SystemUserID, dbFails)
    IN  IF token.kind # "valid"
        THEN RepoResult(NewUnauthorizedError("TOKEN_PARSE_FAILED"), <<>>, d, <<>>)
        ELSE IF found.err # NilError
        THEN RepoResult(ErrUserNotFound, <<>>, found.db, found.trace)
        ELSE IF ~found.entities[1].isActive
        THEN RepoResult(NewUnauthorizedError("USER_DEACTIVATED"), <<>>, found.db, found.trace)
        ELSE RepoResult(NilError, <<token>>, found.db, found.trace)

CreateEnrichedContext(baseCtx, userID, role, email) ==
    (IF email # <<>> THEN ContextUserEmail :> StrVal(email) ELSE EmptyMap)
    @@ (ContextUserRole :> StrVal(role))
    @@ (ContextUserID :> UUIDVal(userID))
    @@ baseCtx

\* UserHandler.getCurrentUserID
getCurrentUserID(g) ==
    IF hasTyped(g.keys, ContextUserID, "uuid") THEN g.keys[ContextUserID].v
    ELSE SystemUserID

\* the route handler has run: what it saw, and its answer
handled(g, name, code) ==
    ginJSON([g EXCEPT !.ran = Append(@, [name |-> name, ctx |-> g.ctx,
                                         checks |-> Len(g.checks)])], code)

ListUsers(g) ==
    LET listed == RepoList(g.cache, g.db, "user", g.ctx, DefaultLimit, DefaultOffset,
                           getCurrentUserID(g), g.dbFails)
    IN  handled(afterRepo(g, listed), "ListUsers",
                IF listed.err # NilError THEN 500 ELSE 200)

GetUserByID(g) ==
    LET found == RepoGetByID(g.cache, g.db, "user", g.ctx, g.id, getCurrentUserID(g),
                             g.dbFails)
    IN  handled(afterRepo(g, found), "GetUserByID",
                IF found.err # NilError THEN errorStatus(ErrUserNotFound, 0) ELSE 200)

UpdateUser(g) ==
    LET found == RepoGetByID(g.cache, g.db, "user", g.ctx, g.id, getCurrentUserID(g),
                             g.dbFails)
        user == [found.entities[1] EXCEPT !.firstName = g.body.firstName,
                                          !.lastName = g.body.lastName,
                                          !.role = g.body.role,
                                          !.isActive = g.body.isActive]
        updated == RepoUpdate(g.cache, found.db, "user", g.ctx, user, getCurrentUserID(g),
                              g.dbFails)
    IN  IF found.err # NilError
        THEN handled(afterRepo(g, found), "UpdateUser", errorStatus(ErrUserNotFound, 0))
        ELSE handled(afterRepo(afterRepo(g, found), updated), "UpdateUser",
                     IF updated.err # NilError THEN errorStatus(updated.err, 0) ELSE 200)

DeleteUser(g) ==
    LET found == RepoGetByID(g.cache, g.db, "user", g.ctx, g.id, getCurrentUserID(g),
                             g.dbFails)
        deleted == RepoDelete(g.cache, found.db, "user", g.ctx, g.id, getCurrentUserID(g),
                              g.dbFails)
    IN  IF found.err # NilError
        THEN handled(afterRepo(g, found), "DeleteUser", errorStatus(found.err, 0))
        ELSE handled(afterRepo(afterRepo(g, found), deleted), "DeleteUser",
                     IF deleted.err # NilError
                     THEN errorStatus(NewInternalError("USER_DELETE_FAILED"), 0) ELSE 200)

CreateProduct(g) ==
    LET product == [id |-> g.newID, name |-> g.body.name,
                    createdBy |-> g.keys[ContextUserID].v]
        created == RepoCreate(g.cache, g.db, "product", g.ctx, product,
                              g.keys[ContextUserID].v, g.dbFails)
    IN  IF ContextUserID \notin DOMAIN g.keys THEN handled(g, "CreateProduct", 500)
        ELSE handled(afterRepo(g, created), "CreateProduct",
                     IF created.err # NilError THEN errorStatus(created.err, 400) ELSE 201)

UpdateProduct(g) ==
    LET userID == getUserIDFromContext(g.ctx)
        found == RepoGetByID(g.cache, g.db, "product", g.ctx, g.id, userID, g.dbFails)
        product == [found.entities[1] EXCEPT !.name = g.body.name]
        updated == RepoUpdate(g.cache, found.db, "product", g.ctx, product, userID,
                              g.dbFails)
    IN  IF found.err # NilError
        THEN handled(afterRepo(g, found), "UpdateProduct", errorStatus(found.err, 400))
        ELSE handled(afterRepo(afterRepo(g, found), updated), "UpdateProduct",
                     IF updated.err # NilError THEN errorStatus(updated.err, 400) ELSE 200)

DeleteProduct(g) ==
    LET userID == getUserIDFromContext(g.ctx)
        found == RepoGetByID(g.cache, g.db, "product", g.ctx, g.id, userID, g.dbFails)
        deleted == RepoDelete(g.cache, found.db, "product", g.ctx, g.id, userID, g.dbFails)
    IN  IF found.err # NilError
        THEN handled(afterRepo(g, found), "DeleteProduct", errorStatus(found.err, 400))
        ELSE handled(afterRepo(afterRepo(g, found), deleted), "DeleteProduct",
                     IF deleted.err # NilError THEN errorStatus(deleted.err, 400) ELSE 200)

routeHandler(g, name) ==
    CASE name = "ListUsers" -> ListUsers(g)
      [] name = "GetUserByID" -> GetUserByID(g)
      [] name = "UpdateUser" -> UpdateUser(g)
      [] name = "DeleteUser" -> DeleteUser(g)
      [] name = "CreateProduct" -> CreateProduct(g)
      [] name = "UpdateProduct" -> UpdateProduct(g)
      [] name = "DeleteProduct" -> DeleteProduct(g)

\* F(v), with v evaluated once
Bind(v, F(_)) == CHOOSE r \in {F(x) : x \in {v}} : TRUE

RECURSIVE ginNext(_), ginLoop(_), runHandler(_, _), AuthRequired(_)
RECURSIVE ResourceAccess(_, _, _), ResourceAccessWithID(_, _, _)

\* c.Next(): the handlers after the running one, until the chain ends or
\* is aborted
ginNext(g) == ginLoop([g EXCEPT !.index = @ + 1])

ginLoop(g) ==
    IF g.aborted \/ g.index > Len(g.handlers) THEN g
    ELSE Bind(runHandler(g, g.handlers[g.index]),
              LAMBDA after : ginLoop([after EXCEPT !.index = @ + 1]))

AuthRequired(g) ==
    LET claims == g.token
        enrichedCtx == (ContextClientIP :> StrVal(g.clientIP))
                       @@ CreateEnrichedContext(g.ctx, claims.userID, claims.role,
                                                claims.email)
        keys == (ContextUserRole :> StrVal(claims.role))
                @@ (ContextUserEmail :> StrVal(claims.email))
                @@ (ContextUserID :> UUIDVal(claims.userID))
                @@ g.keys
    IN  IF g.token.kind = "none" THEN ginAbort(ginJSON(g, 401))
        ELSE Bind(ValidateToken(g.cache, g.db, g.ctx, g.token, g.dbFails),
                  LAMBDA validated :
                      IF validated.err # NilError
                      THEN ginAbort(ginJSON(afterRepo(g, validated), 401))
                      ELSE ginNext([afterRepo(g, validated) EXCEPT
                                        !.keys = keys, !.ctx = enrichedCtx,
                                        !.passed = @ + 1]))

ResourceAccess(g, resource, action) ==
    Bind(AuthRequired(g),
         LAMBDA a :
            LET check == CheckPermission(a.cache, a.ctx, a.keys[ContextUserID].v, resource, action,
                                     FALSE)
                checked == [a EXCEPT !.checks = Append(@, [resource |-> resource,
                                action |-> action, allowed |-> check.err = NilError])]
            IN  IF a.aborted THEN a
                ELSE IF ContextUserID \notin DOMAIN a.keys THEN ginAbort(ginJSON(a, 500))
                ELSE IF check.err # NilError THEN ginAbort(ginJSON(checked, 403))
                ELSE ginNext(checked))

ResourceAccessWithID(g, resource, action) ==
    Bind(AuthRequired(g),
         LAMBDA a :
            LET check == CheckResourcePermission(a.cache, a.ctx, a.keys[ContextUserID].v, resource,
                                             action, a.id, FALSE)
                checked == [a EXCEPT !.checks = Append(@, [resource |-> resource,
                                action |-> action, allowed |-> check.err = NilError])]
            IN  IF a.aborted THEN a
                ELSE IF ContextUserID \notin DOMAIN a.keys THEN ginAbort(ginJSON(a, 500))
                ELSE IF check.err # NilError THEN ginAbort(ginJSON(checked, 403))
                ELSE ginNext(checked))

runHandler(g, h) ==
    CASE h.kind = "ResourceAccess" -> ResourceAccess(g, h.resource, h.action)
      [] h.kind = "ResourceAccessWithID" -> ResourceAccessWithID(g, h.resource, h.action)
      [] h.kind = "route" -> routeHandler(g, h.name)

-----------------------------------------------------------------------------
(* SpecHTTP: the server of setupRoutes, one request at a time, on an       *)
(* engine loaded from the store, and use cases calling the repositories.   *)

\* the middleware of the routes
UserListAccess == [kind |-> "ResourceAccess", resource |-> "user:list", action |-> "list"]

UserReadAccess ==
    [kind |-> "ResourceAccessWithID", resource |-> "user:read", action |-> "read"]

UserUpdateAccess ==
    [kind |-> "ResourceAccessWithID", resource |-> "user:update", action |-> "update"]

UserDeleteAccess ==
    [kind |-> "ResourceAccessWithID", resource |-> "user:delete", action |-> "delete"]

ProductCreateAccess ==
    [kind |-> "ResourceAccess", resource |-> "product:create", action |-> "create"]

ProductUpdateAccess ==
    [kind |-> "ResourceAccessWithID", resource |-> "product:update", action |-> "update"]

ProductDeleteAccess ==
    [kind |-> "ResourceAccessWithID", resource |-> "product:delete", action |-> "delete"]

RouteHandler(name) == [kind |-> "route", name |-> name]

\* the protected routes of setupRoutes: the handlers of a route are the
\* middleware that the group holds when the route is registered, then the
\* handler of the route; own is the middleware registered for the route
ProtectedRoutes ==
    {[route |-> "GET /api/v1/users", own |-> UserListAccess,
      handlers |-> <<UserListAccess, RouteHandler("ListUsers")>>],
     [route |-> "GET /api/v1/users/:id", own |-> UserReadAccess,
      handlers |-> <<UserListAccess, UserReadAccess, RouteHandler("GetUserByID")>>],
     [route |-> "PUT /api/v1/users/:id", own |-> UserUpdateAccess,
      handlers |-> <<UserListAccess, UserReadAccess, UserUpdateAccess,
                     RouteHandler("UpdateUser")>>],
     [route |-> "DELETE /api/v1/users/:id", own |-> UserDeleteAccess,
      handlers |-> <<UserListAccess, UserReadAccess, UserUpdateAccess, UserDeleteAccess,
                     RouteHandler("DeleteUser")>>],
     [route |-> "POST /api/v1/products", own |-> ProductCreateAccess,
      handlers |-> <<ProductCreateAccess, RouteHandler("CreateProduct")>>],
     [route |-> "PUT /api/v1/products/:id", own |-> ProductUpdateAccess,
      handlers |-> <<ProductCreateAccess, ProductUpdateAccess,
                     RouteHandler("UpdateProduct")>>],
     [route |-> "DELETE /api/v1/products/:id", own |-> ProductDeleteAccess,
      handlers |-> <<ProductCreateAccess, ProductUpdateAccess, ProductDeleteAccess,
                     RouteHandler("DeleteProduct")>>]}

\* rows of a table
MaxRows == 3

\* entries of the audit logger when a request starts
MaxAudit == 1

AdminEmail == <<"a", "@", "b", ".", "c", "o">>

UserEmail == <<"u", "@", "b", ".", "c", "o">>

NewEmail == <<"n", "@", "b", ".", "c", "o">>

UserRow(id, email, role, isActive) ==
    [id |-> id, email |-> email, password |-> <<"bcrypt", "s", "e", "c", "r", "e", "t">>,
     firstName |-> "Ann", lastName |-> "Lee", role |-> role, isActive |-> isActive]

ProductRow(id, name, createdBy) == [id |-> id, name |-> name, createdBy |-> createdBy]

SeededDB ==
    [user |-> <<UserRow("a1", AdminEmail, RoleAdmin, TRUE),
                UserRow("u1", UserEmail, RoleUser, TRUE),
                UserRow("u2", <<"z", "@", "b", ".", "c", "o">>, RoleUser, FALSE)>>,
     product |-> <<ProductRow("prod-1", "pen", "a1")>>,
     audit |-> <<>>]

FreshIDs == {"n1", "n2"}

rowIDs(rows) == {rows[k].id : k \in 1..Len(rows)}

ValidTokenOf(userID, email, role) ==
    [kind |-> "valid", userID |-> userID, email |-> email, role |-> role]

Tokens ==
    {NoToken, [NoToken EXCEPT !.kind = "invalid"],
     ValidTokenOf("a1", AdminEmail, RoleAdmin), ValidTokenOf("u1", UserEmail, RoleUser),
     ValidTokenOf("u2", <<"z", "@", "b", ".", "c", "o">>, RoleUser),
     ValidTokenOf("n1", NewEmail, RoleUser)}

HTTPStores == {BootstrapStore, <<UserPolicy, DenyDeletePolicy>>}

\* the contexts that a use case hands to a repository
HTTPCarriers ==
    {EmptyMap,
     CreateEnrichedContext(EmptyMap, "a1", RoleAdmin, AdminEmail),
     CreateEnrichedContext(EmptyMap, "u1", RoleUser, UserEmail)}

RequestBody ==
    [name |-> "ink", firstName |-> "Bob", lastName |-> "Ray", role |-> RoleAdmin,
     isActive |-> TRUE]

InitHTTP ==
    /\ store \in HTTPStores
    /\ cache = rebuildCache(GetActive(store))
    /\ mutex = [writer |-> "none", readers |-> {}]
    /\ pc = [p \in Procs |-> "idle"]
    /\ call = [p \in Procs |-> IdleCall]
    /\ loc = [p \in Procs |-> IdleLoc]
    /\ ghost = GhostInit(cache)
    /\ probe = IdleProbe
    /\ svc = IdleSvc
    /\ boot = IdleBoot
    /\ conv = IdleConv
    /\ http = IdleHTTP
    /\ db \in {EmptyDB, SeededDB}

\* POST /api/v1/auth/register, a route without middleware
ServeRegister ==
    /\ http.phase = "idle"
    /\ Len(db.user) < MaxRows /\ Len(db.audit) <= MaxAudit
    /\ \E email \in {<<>>, <<"b", "a", "d">>, UserEmail, NewEmail},
          password \in {<<>>, <<"1", "2", "3", "4", "5">>, <<"s", "e", "c", "r", "e", "t">>},
          firstName \in {"", "Ann"}, lastName \in {"", "Lee"},
          newID \in FreshIDs \ rowIDs(db.user), dbFails \in BOOLEAN :
        \E out \in {Register(cache, db, EmptyMap, email, password, firstName, lastName,
                              newID, dbFails)} :
            /\ http' = [IdleHTTP EXCEPT !.phase = "done",
                            !.route = "POST /api/v1/auth/register",
                            !.input = [email |-> email, password |-> password,
                                       firstName |-> firstName, lastName |-> lastName],
                            !.dbFails = dbFails, !.err = out.err, !.body = out.entities,
                            !.status = IF out.err # NilError THEN errorStatus(out.err, 400)
                                       ELSE 201,
                            !.trace = out.trace, !.before = db]
            /\ db' = out.db
    /\ UNCHANGED <<store, cache, mutex, pc, call, loc, ghost, probe, svc, boot, conv>>

\* a use case calls one operation of a repository
repositoryCall(c, d, resourceName, ctx, op, id, newID, userID, dbFails) ==
    LET entity == IF resourceName = "user"
                  THEN UserRow(newID, NewEmail, RoleUser, TRUE)
                  ELSE ProductRow(newID, "pen", userID)
    IN  CASE op = "create" -> RepoCreate(c, d, resourceName, ctx, entity, userID, dbFails)
          [] op = "read" -> RepoGetByID(c, d, resourceName, ctx, id, userID, dbFails)
          [] op = "update" ->
                RepoUpdate(c, d, resourceName, ctx, [entity EXCEPT !.id = id], userID, dbFails)
          [] op = "delete" -> RepoDelete(c, d, resourceName, ctx, id, userID, dbFails)
          [] op = "list" ->
                RepoList(c, d, resourceName, ctx, DefaultLimit, DefaultOffset, userID, dbFails)

CallRepository ==
    /\ http.phase = "idle"
    /\ Len(db.audit) <= MaxAudit
    /\ \E resourceName \in {"user", "product"}, ctx \in HTTPCarriers, op \in CrudActions,
          id \in {"prod-1", "u2"}, dbFails \in BOOLEAN :
        /\ Len(db[resourceName]) < MaxRows
        /\ \E newID \in FreshIDs \ rowIDs(db[resourceName]) :
            \E out \in {repositoryCall(cache, db, resourceName, ctx, op, id, newID, "a1",
                                        dbFails)} :
                /\ http' = [IdleHTTP EXCEPT !.phase = "done", !.route = "repository",
                                !.input = [resourceName |-> resourceName, op |-> op],
                                !.id = id, !.ctx = ctx, !.dbFails = dbFails,
                                !.err = out.err, !.body = out.entities,
                                !.trace = out.trace, !.before = db]
                /\ db' = out.db
    /\ UNCHANGED <<store, cache, mutex, pc, call, loc, ghost, probe, svc, boot, conv>>

\* a request on a protected route: Engine.handleHTTPRequest runs the chain
\* from its first handler
ServeProtected ==
    /\ http.phase = "idle"
    /\ Len(db.audit) <= MaxAudit
    /\ Len(db.product) < MaxRows
    /\ \E r \in ProtectedRoutes, token \in Tokens, id \in {"prod-1", "u2"},
          newID \in FreshIDs \ rowIDs(db.product), dbFails \in BOOLEAN :
        \E g \in {ginNext([handlers |-> r.handlers, index |-> 0, aborted |-> FALSE,
                            status |-> 0, keys |-> EmptyMap, ctx |-> EmptyMap,
                            token |-> token, id |-> id, body |-> RequestBody,
                            newID |-> newID, clientIP |-> "10.0.0.1", cache |-> cache,
                            db |-> db, dbFails |-> dbFails, trace |-> <<>>, ran |-> <<>>,
                            checks |-> <<>>, passed |-> 0])} :
            /\ http' = [IdleHTTP EXCEPT !.phase = "done", !.route = r.route,
                            !.token = token, !.id = id, !.dbFails = dbFails,
                            !.status = IF g.status = 0 THEN 200 ELSE g.status,
                            !.aborted = g.aborted, !.keys = g.keys, !.ctx = g.ctx,
                            !.trace = g.trace, !.ran = g.ran, !.checks = g.checks,
                            !.passed = g.passed, !.before = db]
            /\ db' = g.db
    /\ UNCHANGED <<store, cache, mutex, pc, call, loc, ghost, probe, svc, boot, conv>>

HTTPReturn ==
    /\ http.phase = "done"
    /\ http' = IdleHTTP
    /\ UNCHANGED <<store, cache, mutex, pc, call, loc, ghost, probe, svc, boot, conv, db>>

NextHTTP ==
    \/ ServeRegister
    \/ CallRepository
    \/ ServeProtected
    \/ HTTPReturn

SpecHTTP == InitHTTP /\ [][NextHTTP]_vars

HTTPTypeOK == http.phase \in {"idle", "done"}

\* the statements of the generic repository on the database
Statements == {"db.Create", "db.First", "db.Save", "db.Delete", "db.Find"}

\* C22: every operation of the generic repository validates access before
\* anything else: a statement on the database comes right after a
\* ValidateAccess and an audit entry right after a statement; when
\* ValidateAccess fails the operation returns its error, runs no statement,
\* writes no audit entry and leaves the database as it was.
C22_ValidateAccessComesFirst ==
    http.phase = "done" =>
        /\ \A k \in 1..Len(http.trace) :
            /\ http.trace[k] \in Statements => (k > 1 /\ http.trace[k - 1] = "ValidateAccess")
            /\ http.trace[k] = "AuditLog" => (k > 1 /\ http.trace[k - 1] \in Statements)
        /\ http.route = "repository" =>
            LET access == RepoValidateAccess(cache, http.input.resourceName, http.ctx, "a1",
                                             http.input.op)
            IN  /\ http.trace # <<>> /\ http.trace[1] = "ValidateAccess"
                /\ access # NilError =>
                    /\ http.err = access
                    /\ http.trace = <<"ValidateAccess">>
                    /\ db = http.before

\* a Create that ValidateAccess refused, and the database as it was
C22_Witness ==
    /\ http.phase = "done" /\ http.route = "repository"
    /\ http.input.op = "create" /\ http.input.resourceName = "product"
    /\ http.err.type = "PermissionError"
    /\ http.before = SeededDB /\ db = SeededDB

\* C21: a registration with a well-formed email, a password of six
\* characters or more and both names, when the database works, persists a
\* new user and returns it with role "user" and IsActive true when the
\* email is not in the table; when it is, the answer is "user already
\* exists" and nothing is created.
C21_RegisterCreatesUser ==
    (/\ http.phase = "done" /\ http.route = "POST /api/v1/auth/register"
     /\ ~http.dbFails
     /\ ValidateRegisterRequest(http.input.email, http.input.password,
                                http.input.firstName, http.input.lastName) = NilError)
    => IF usersByEmail(http.before.user, http.input.email, 1) = <<>>
       THEN /\ http.err = NilError
            /\ Len(http.body) = 1
            /\ http.body[1].email = http.input.email
            /\ http.body[1].role = "user" /\ http.body[1].isActive
            /\ db.user = Append(http.before.user, http.body[1])
       ELSE /\ http.err = ErrUserAlreadyExists
            /\ db = http.before

\* the request was made on a protected route with a token that the token
\* service validates for a user who is in the table and active, and the
\* database works
authenticated ==
    /\ http.phase = "done"
    /\ http.route \in {r.route : r \in ProtectedRoutes}
    /\ http.token.kind = "valid"
    /\ ~http.dbFails
    /\ \E k \in 1..Len(http.before.user) :
        /\ http.before.user[k].id = http.token.userID
        /\ http.before.user[k].isActive

\* C29: a request with a token that the token service validates for an
\* existing, active user passes AuthRequired, and the handlers that run see
\* a context with the id, the role and the email of the user and the client IP.
C29_ValidTokenPassesAuthRequired ==
    authenticated =>
        /\ http.passed >= 1
        /\ \A k \in 1..Len(http.ran) :
            /\ hasTyped(http.ran[k].ctx, ContextUserID, "uuid")
            /\ http.ran[k].ctx[ContextUserID] = UUIDVal(http.token.userID)
            /\ hasTyped(http.ran[k].ctx, ContextUserRole, "string")
            /\ http.ran[k].ctx[ContextUserRole] = StrVal(http.token.role)
            /\ hasTyped(http.ran[k].ctx, ContextUserEmail, "string")
            /\ http.ran[k].ctx[ContextUserEmail] = StrVal(http.token.email)
            /\ hasTyped(http.ran[k].ctx, ContextClientIP, "string")

\* the routes with a path parameter, which C27 names
routesWithID ==
    {"PUT /api/v1/products/:id", "DELETE /api/v1/products/:id",
     "GET /api/v1/users/:id", "PUT /api/v1/users/:id", "DELETE /api/v1/users/:id"}

\* C27: for an authenticated request, the chain of a protected route lets
\* the handler of the route run exactly when the engine allows the pair of
\* resource and action of the route's own middleware.
C27_RouteGuardedByOwnCheck ==
    (authenticated /\ http.route \in routesWithID) =>
        LET r == CHOOSE x \in ProtectedRoutes : x.route = http.route
            ctx == (ContextClientIP :> StrVal("10.0.0.1"))
                   @@ CreateEnrichedContext(EmptyMap, http.token.userID, http.token.role,
                                            http.token.email)
            admitted == \E k \in 1..Len(http.ran) :
                            http.ran[k].name = r.handlers[Len(r.handlers)].name
            allowed == CheckResourcePermission(cache, ctx, http.token.userID,
                           r.own.resource, r.own.action, http.id, FALSE).err = NilError
        IN  admitted <=> allowed

-----------------------------------------------------------------------------
(* The SQLite form of a policy document.  The condition map of a statement *)
(* is kept in a text column as the JSON that json.Marshal writes; a JSON   *)
(* text is modelled by its kind and, for an object, its members.           *)

IntVal(n) == [t |-> "int", v |-> n]

Float64Val(n) == [t |-> "float64", v |-> n]

JSONText(kind, members) == [kind |-> kind, members |-> members]

\* json.Marshal of one interface{} value: a string and a uuid.UUID become
\* JSON strings, a bool a JSON boolean, an int and a float64 JSON numbers
marshalValue(x) ==
    CASE x.t = "string" -> [j |-> "string", v |-> x.v]
      [] x.t = "uuid" -> [j |-> "string", v |-> x.v]
      [] x.t = "bool" -> [j |-> "bool", v |-> x.v]
      [] x.t = "int" -> [j |-> "number", v |-> x.v]
      [] x.t = "float64" -> [j |-> "number", v |-> x.v]

\* json.Marshal fails with UnsupportedValueError on NaN and the infinities
unsupportedValue(x) == x.t = "float64" /\ x.v \in {"NaN", "+Inf", "-Inf"}

\* json.Marshal of a condition map: null for the nil map, an object
\* otherwise, and no bytes with an error for an unsupported value
Marshal(conditions) ==
    IF conditions.isNil
    THEN [text |-> JSONText("null", EmptyMap), err |-> FALSE]
    ELSE IF \E k \in DOMAIN conditions.entries : unsupportedValue(conditions.entries[k])
    THEN [text |-> JSONText("", EmptyMap), err |-> TRUE]
    ELSE [text |-> JSONText("object",
                     [k \in DOMAIN conditions.entries |-> marshalValue(conditions.entries[k])]),
          err |-> FALSE]

\* json.Unmarshal of one JSON value into interface{}: a number is a float64
unmarshalValue(token) ==
    CASE token.j = "string" -> StrVal(token.v)
      [] token.j = "bool" -> BoolVal(token.v)
      [] token.j = "number" -> Float64Val(token.v)

\* json.Unmarshal into a nil map variable: null leaves it nil, an object
\* allocates the map, anything else is an error
Unmarshal(text) ==
    CASE text.kind = "null" -> [conditions |-> ConditionsValue(TRUE, EmptyMap), err |-> FALSE]
      [] text.kind = "object" ->
            [conditions |-> ConditionsValue(FALSE,
                                [k \in DOMAIN text.members |-> unmarshalValue(text.members[k])]),
             err |-> FALSE]
      [] OTHER -> [conditions |-> ConditionsValue(TRUE, EmptyMap), err |-> TRUE]

\* FromPolicyDocument: the error of json.Marshal is dropped
FromPolicyDocument(policy) ==
    [id |-> policy.id, name |-> policy.name, isActive |-> policy.isActive,
     statements |->
        [i \in 1..Len(policy.statements) |->
            [effect |-> policy.statements[i].effect,
             principal |-> policy.statements[i].principal,
             action |-> policy.statements[i].action,
             resource |-> policy.statements[i].resource,
             conditions |-> Marshal(policy.statements[i].conditions).text]]]

\* the conditions ToPolicyDocument gives a statement row
rowConditions(text) ==
    IF text.kind = "" THEN ConditionsValue(TRUE, EmptyMap)
    ELSE IF Unmarshal(text).err THEN ConditionsValue(FALSE, EmptyMap)
    ELSE Unmarshal(text).conditions

ToPolicyDocument(p) ==
    PolicyDocument(p.id, p.name,
        [i \in 1..Len(p.statements) |->
            Statement(p.statements[i].effect, p.statements[i].principal,
                      p.statements[i].action, p.statements[i].resource,
                      rowConditions(p.statements[i].conditions))],
        p.isActive)

-----------------------------------------------------------------------------
(* SpecConv: a document is written to the SQLite tables by Create and read *)
(* back by a query of the repository.                                      *)

MaxStatements == 2

ConvConditions ==
    { ConditionsValue(TRUE, EmptyMap),
      ConditionsValue(FALSE, EmptyMap),
      ConditionsValue(FALSE, "resource_owner" :> BoolVal("true")),
      ConditionsValue(FALSE, "department" :> StrVal("sales")),
      ConditionsValue(FALSE, ("resource_owner" :> BoolVal("true")) @@ ("department" :> StrVal("sales"))),
      ConditionsValue(FALSE, "level" :> IntVal("5")),
      ConditionsValue(FALSE, "level" :> Float64Val("5")),
      ConditionsValue(FALSE, "owner" :> UUIDVal("u1")),
      ConditionsValue(FALSE, ("department" :> StrVal("sales")) @@ ("score" :> Float64Val("NaN"))) }

ConvStatements ==
    {Statement(PolicyEffectAllow, RolePrincipal(RoleUser), "read", "product:read", c) :
        c \in ConvConditions}
    \cup {Statement(PolicyEffectDeny, WildcardKey, "*", "*", ConditionsValue(FALSE, EmptyMap))}

ConvPolicies ==
    {PolicyDocument("id-conv", "conv-policy", s, TRUE) :
        s \in UNION {[1..n -> ConvStatements] : n \in 0..MaxStatements}}

InitConv ==
    /\ store = <<>>
    /\ cache = EmptyCache
    /\ mutex = [writer |-> "none", readers |-> {}]
    /\ pc = [p \in Procs |-> "idle"]
    /\ call = [p \in Procs |-> IdleCall]
    /\ loc = [p \in Procs |-> IdleLoc]
    /\ ghost = GhostInit(EmptyCache)
    /\ probe = IdleProbe
    /\ svc = IdleSvc
    /\ boot = IdleBoot
    /\ conv \in {[IdleConv EXCEPT !.phase = "input", !.policy = d] : d \in ConvPolicies}
    /\ http = IdleHTTP
    /\ db = EmptyDB

\* policySQLiteRepository.Create: the rows written for the document
CreateRow ==
    /\ conv.phase = "input"
    /\ conv' = [conv EXCEPT !.phase = "stored", !.stored = FromPolicyDocument(conv.policy)]
    /\ UNCHANGED <<store, cache, mutex, pc, call, loc, ghost, probe, svc, boot, http, db>>

\* a query of the repository: the document made from the rows
ReadRow ==
    /\ conv.phase = "stored"
    /\ conv' = [conv EXCEPT !.phase = "back", !.back = ToPolicyDocument(conv.stored)]
    /\ UNCHANGED <<store, cache, mutex, pc, call, loc, ghost, probe, svc, boot, http, db>>

NextConv == CreateRow \/ ReadRow

SpecConv == InitConv /\ [][NextConv]_vars

\* C19: the document read back, ToPolicyDocument(FromPolicyDocument(d)), has
\* as many statements as d, in the same order, and each has the effect,
\* principal, action, resource and conditions of the original, an empty
\* condition map included.
C19_RoundTripKeepsStatements ==
    conv.phase = "back" =>
        /\ Len(conv.back.statements) = Len(conv.policy.statements)
        /\ \A i \in 1..Len(conv.policy.statements) :
                /\ conv.back.statements[i].effect = conv.policy.statements[i].effect
                /\ conv.back.statements[i].principal = conv.policy.statements[i].principal
                /\ conv.back.statements[i].action = conv.policy.statements[i].action
                /\ conv.back.statements[i].resource = conv.policy.statements[i].resource
                /\ conv.back.statements[i].conditions = conv.policy.statements[i].conditions

-----------------------------------------------------------------------------
(* SpecMatch: statementMatches as a function of a statement and a request. *)
(* The request is handed to Evaluate directly, or built by the service     *)
(* from a context carrier.                                                 *)

ProbePrincipals ==
    {WildcardKey, RolePrincipal(RoleUser), RolePrincipal(RoleAdmin),
     RolePrincipal(""), Chars(RoleUser)}

ProbeConditions ==
    {EmptyMap, OwnerCondition, DepartmentCondition,
     OwnerCondition @@ DepartmentCondition}

ProbeStatements ==
    {Statement(PolicyEffectAllow, p, a, r, c) :
        p \in ProbePrincipals, a \in {"*", "delete", "read"},
        r \in {"*", "product:delete", "user:create"}, c \in ProbeConditions}

ProbeContexts ==
    {EmptyMap,
     ResourceOwnerIDKey :> UUIDString("u1"),
     ResourceOwnerIDKey :> UUIDString("u2"),
     ResourceOwnerIDKey :> UUIDVal("u1"),
     "department" :> StrVal("sales"),
     "department" :> StrVal("hr"),
     (ResourceOwnerIDKey :> UUIDString("u1")) @@ ("department" :> StrVal("sales"))}

ProbeRequests ==
    {PermissionRequest("u1", role, r, a, rid, c) :
        role \in RoleNames, r \in {"product:delete", "user:create"},
        a \in {"delete", "read"}, rid \in {"", "r1"}, c \in ProbeContexts}

ProbeCarriers ==
    {(ContextUserRole :> StrVal(RoleUser)) @@ (ContextUserID :> UUIDVal("u1")),
     (ContextUserRole :> StrVal(RoleAdmin)) @@ (ContextClientIP :> StrVal("10.0.0.1")),
     ContextUserRole :> StrVal("*")}

ProbeInputs ==
    {[api |-> "Evaluate", ctx |-> EmptyMap, req |-> r] : r \in ProbeRequests}
    \cup {[api |-> "CheckPermission", ctx |-> c,
           req |-> PermissionRequest("u1", "", r, a, "", EmptyMap)] :
            c \in ProbeCarriers, r \in {"product:delete", "user:create"},
            a \in {"delete", "read"}}
    \cup {[api |-> "CheckResourcePermission", ctx |-> c,
           req |-> PermissionRequest("u1", "", r, a, rid, EmptyMap)] :
            c \in ProbeCarriers, r \in {"product:delete", "user:create"},
            a \in {"delete", "read"}, rid \in {"", "r1"}}

InitMatch ==
    /\ store = <<>>
    /\ cache = EmptyCache
    /\ mutex = [writer |-> "none", readers |-> {}]
    /\ pc = [p \in Procs |-> "idle"]
    /\ call = [p \in Procs |-> IdleCall]
    /\ loc = [p \in Procs |-> IdleLoc]
    /\ ghost = GhostInit(EmptyCache)
    /\ probe \in {[phase |-> "input", api |-> in.api, ctx |-> in.ctx, args |-> in.req,
                   statement |-> st, req |-> NilRequest, out |-> FALSE] :
                    in \in ProbeInputs, st \in ProbeStatements}
    /\ svc = IdleSvc
    /\ boot = IdleBoot
    /\ conv = IdleConv
    /\ http = IdleHTTP
    /\ db = EmptyDB

\* the request that reaches the engine for the probe's input
probeRequest(pr) ==
    CASE pr.api = "Evaluate" -> pr.args
      [] pr.api = "CheckPermission" ->
            checkPermissionRequest(pr.ctx, pr.args.userId, pr.args.resource,
                                   pr.args.action)
      [] pr.api = "CheckResourcePermission" ->
            checkResourcePermissionRequest(pr.ctx, pr.args.userId, pr.args.resource,
                                           pr.args.action, pr.args.resourceId)

MatchStatement ==
    /\ probe.phase = "input"
    /\ LET req == probeRequest(probe)
       IN  probe' = [probe EXCEPT !.phase = "done", !.req = req,
                                  !.out = statementMatches(probe.statement, req)]
    /\ UNCHANGED <<store, cache, mutex, pc, call, loc, ghost, svc, boot, conv, http, db>>

NextMatch == MatchStatement

SpecMatch == InitMatch /\ [][NextMatch]_vars

\* C2: statementMatches is true exactly when principal, action and resource
\* each are the wildcard or equal the request's, and every condition holds:
\* an empty condition map always, the reserved key resource_owner by the
\* ownership rule, any other key by being present in the request context with
\* an equal value.
C2_StatementMatchesExactly ==
    probe.phase = "done" =>
        LET st == probe.statement
            req == probe.req
            principalOk == st.principal = <<"*">>
                           \/ st.principal = <<"r", "o", "l", "e", ":">> \o Chars(req.role)
            actionOk == st.action \in {"*", req.action}
            resourceOk == st.resource \in {"*", req.resource}
            ownerOk == \/ req.resourceId = ""
                       \/ /\ "resource_owner_id" \in DOMAIN req.context
                          /\ req.context["resource_owner_id"] = [t |-> "string", v |-> req.userId]
            conditionsOk ==
                \/ DOMAIN st.conditions = {}
                \/ /\ "resource_owner" \in DOMAIN st.conditions => ownerOk
                   /\ \A k \in DOMAIN st.conditions \ {"resource_owner"} :
                        /\ k \in DOMAIN req.context
                        /\ req.context[k] = st.conditions[k]
        IN  probe.out <=> (principalOk /\ actionOk /\ resourceOk /\ conditionsOk)

\* a statement with a non-reserved condition meets a request whose context
\* lacks the key, and all else matches
C2_Witness ==
    /\ probe.phase = "done"
    /\ ~probe.out
    /\ DOMAIN probe.statement.conditions = {"department"}
    /\ "department" \notin DOMAIN probe.req.context
    /\ matchesPrincipal(probe.statement.principal, probe.req.role)
    /\ probe.statement.action = probe.req.action
    /\ probe.statement.resource = probe.req.resource

\* C10: on a request with an empty resourceId (every request CheckPermission
\* builds, and CheckResourcePermission's with resourceID "") a statement that
\* matches on principal, action and resource and whose only condition is
\* resource_owner matches, with or without resource_owner_id in the context.
C10_EmptyResourceIdBypassesOwnership ==
    probe.phase = "done" =>
        /\ (probe.api = "CheckPermission"
            \/ (probe.api = "CheckResourcePermission" /\ probe.args.resourceId = ""))
           => probe.req.resourceId = ""
        /\ ( /\ probe.req.resourceId = ""
             /\ DOMAIN probe.statement.conditions = {"resource_owner"}
             /\ matchesPrincipal(probe.statement.principal, probe.req.role)
             /\ matchesAction(probe.statement.action, probe.req.action)
             /\ matchesResource(probe.statement.resource, probe.req.resource) )
           => probe.out

\* CheckPermission reached an owner-only statement, no resource_owner_id in
\* the context, and the statement matched
C10_Witness ==
    /\ probe.phase = "done"
    /\ probe.api = "CheckPermission"
    /\ DOMAIN probe.statement.conditions = {"resource_owner"}
    /\ "resource_owner_id" \notin DOMAIN probe.req.context
    /\ probe.out

====
